---------------------------- MODULE Spec2Model ----------------------------
(***************************************************************************)
(* Model of parl_wallet/src/network_handler.rs: the wallet's chain         *)
(* synchronisation core (NetworkHandler).                                  *)
(*                                                                         *)
(* Two specifications share the module.                                    *)
(*   Spec      the sync supervisor (start_syncing) of one task working on  *)
(*             the wallet storage against a daemon whose chain grows,      *)
(*             rewinds and reorders.  One action is one whole handler of   *)
(*             the select loop (or the bootstrap sync); the daemon moves   *)
(*             between handlers.                                           *)
(*   LifeSpec  the lifecycle controller (start / stop / is_running and the *)
(*             spawned reconnect loop), with start_syncing reduced to the  *)
(*             points where it runs and where it returns.                  *)
(***************************************************************************)
EXTENDS Integers, Sequences, FiniteSets, TLC

\* Highest topoheight the daemon's chain reaches in the model.
MaxTopo == 3
\* Number of changes (a block added, a block rewound) the daemon's chain makes in a run.
MaxMoves == 5
\* Number of supervisor tasks start may spawn in the model.
MaxTasks == 2

(***************************************************************************)
(* Options: None is the empty sequence, Some(v) the one-element sequence.  *)
(***************************************************************************)
None == << >>
Some(v) == << v >>
IsSome(o) == o # << >>
Get(o) == o[1]

Range(s) == { s[i] : i \in 1..Len(s) }
SetMax(S) == CHOOSE x \in S : \A y \in S : y <= x

(***************************************************************************)
(* The daemon's blocks and transactions.  A block's hash is its name; a    *)
(* transaction's hash is its name.  "me" is the wallet's public key.       *)
(***************************************************************************)
Me == "me"
Other == "other"
PARL_ASSET == "PARL"
AssetX == "X"
Assets == {PARL_ASSET, AssetX}
GenesisHash == "G"
NoHash == "none"

TxIds == {"tIn", "tMul", "tOut", "tBurn"}

\* RPCTransactionType: Transfers (a list of transfers) or Burn.
\* A transfer: destination, asset, and whether its commitment and handle
\* decompress.
Txs ==
  [ t \in TxIds |->
      CASE t = "tIn"   -> [source |-> Other, nonce |-> 0, kind |-> "transfers", asset |-> AssetX,
                           transfers |-> << [dest |-> Me, asset |-> PARL_ASSET, ok |-> FALSE],
                                            [dest |-> Me, asset |-> AssetX, ok |-> TRUE] >>]
        [] t = "tMul"  -> [source |-> Other, nonce |-> 1, kind |-> "transfers", asset |-> AssetX,
                           transfers |-> << [dest |-> Me, asset |-> PARL_ASSET, ok |-> TRUE],
                                            [dest |-> Other, asset |-> AssetX, ok |-> TRUE],
                                            [dest |-> Me, asset |-> AssetX, ok |-> TRUE] >>]
        [] t = "tOut"  -> [source |-> Me, nonce |-> 0, kind |-> "transfers", asset |-> AssetX,
                           transfers |-> << [dest |-> Other, asset |-> AssetX, ok |-> TRUE] >>]
        [] t = "tBurn" -> [source |-> Me, nonce |-> 1, kind |-> "burn", asset |-> AssetX,
                           transfers |-> << >>] ]

BlockIds == {"E", "CB", "IN", "MULTI", "DUP", "BURN", "BAD"}

\* BlockResponse: miner, miner_reward, the miner address's network, transactions.
\* BAD is a block whose miner address is not of the wallet's network.
Blocks ==
  [ k \in BlockIds |->
      CASE k = "E"     -> [miner |-> Other, reward |-> FALSE, mainnet |-> TRUE, txs |-> << >>]
        [] k = "CB"    -> [miner |-> Me,    reward |-> TRUE,  mainnet |-> TRUE, txs |-> << >>]
        [] k = "IN"    -> [miner |-> Other, reward |-> FALSE, mainnet |-> TRUE, txs |-> << "tIn" >>]
        [] k = "MULTI" -> [miner |-> Other, reward |-> FALSE, mainnet |-> TRUE, txs |-> << "tMul" >>]
        [] k = "DUP"   -> [miner |-> Other, reward |-> FALSE, mainnet |-> TRUE, txs |-> << "tIn", "tOut" >>]
        [] k = "BURN"  -> [miner |-> Other, reward |-> FALSE, mainnet |-> TRUE, txs |-> << "tBurn" >>]
        [] k = "BAD"   -> [miner |-> Other, reward |-> FALSE, mainnet |-> FALSE, txs |-> << "tIn" >>] ]

\* Wallet::get_network()
WalletNetwork == "Mainnet"
IsMainnet(network) == network = "Mainnet"


\* The blocks the daemon of one run mines: one of these families.  The daemon
\* that mines TestnetFamily runs on the other network.
TestnetFamily == {"BAD"}
Families == { {"E", "CB", "IN", "MULTI"}, {"E", "IN", "DUP", "BURN"}, {"E", "CB", "BAD"},
              TestnetFamily }

VARIABLES
  family,     \* daemon: the blocks this run's daemon mines
  pruned,     \* daemon: [topoheight, headers]: info.pruned_topoheight (0 when not pruned)
              \* and whether it still serves the headers of the blocks below it
  moves,      \* daemon: how many times its chain has changed
  chain,      \* daemon: the blocks in topological order, chain[h] at topoheight h
  storage,    \* wallet storage (see InitStorage)
  pc,         \* supervisor task of Spec: "boot" before the bootstrap sync, "loop" at the select,
              \* "ok" / "err" when a handler has just returned
  last,       \* what the last handler did (observation only)
  events,     \* wallet events the last handler propagated, in order
  sincesync,  \* TRUE while nothing has happened since the last successful sync
  handle,     \* LifeSpec: NetworkHandler.task, None or Some(task id)
  tasks,      \* LifeSpec: state of every spawned task
  online,     \* LifeSpec: DaemonAPI.is_online()
  log,        \* LifeSpec: Online / Offline events the last step propagated, in order
  ret,        \* LifeSpec: what the last start / stop call returned and found
  net,        \* LifeSpec: the last Online / Offline event the wallet was given ("none" before any)
  step        \* LocSpec, StepSpec: where the task is inside the operation it runs

vars == << family, pruned, moves, chain, storage, pc, last, events, sincesync,
          handle, tasks, online, log, ret, net, step >>
syncVars == << family, pruned, moves, chain, storage, pc, last, events, sincesync >>
lifeVars == << handle, tasks, online, log, ret, net >>

\* info.network
DaemonNetwork == IF family = TestnetFamily THEN "Testnet" ELSE "Mainnet"
\* info.pruned_topoheight.unwrap_or(0)
PrunedTopoheight == pruned.topoheight
\* A daemon that has pruned nothing.
NotPruned == [topoheight |-> 0, headers |-> TRUE]

(***************************************************************************)
(* Daemon RPC surface, computed from the chain.                            *)
(***************************************************************************)
DaemonTopoheight(ch) == Len(ch)
HashAt(ch, h) == IF h = 0 THEN GenesisHash ELSE ch[h]
\* get_block_at_topoheight(h) answers for a topoheight of the chain whose
\* block the daemon still serves.
BlockKnown(ch, h) == h <= DaemonTopoheight(ch) /\ (h >= PrunedTopoheight \/ pruned.headers)

\* Topoheights whose block includes transaction t.
IncludedAt(ch, t) == { h \in 1..Len(ch) : t \in Range(Blocks[ch[h]].txs) }
\* A transaction is executed in the first block (in topological order) that includes it.
InChain(ch, t) == IncludedAt(ch, t) # {}
SetMin(S) == CHOOSE x \in S : \A y \in S : x <= y
ExecutorOf(ch, t) == SetMin(IncludedAt(ch, t))
ExecutedAt(ch, t, h) == h \in IncludedAt(ch, t) /\ \A g \in 1..(h - 1) : t \notin Range(Blocks[ch[g]].txs)
\* is_tx_executed_in_block(tx_hash, block_hash)
IsTxExecutedInBlock(ch, t, k) == \E h \in 1..Len(ch) : ch[h] = k /\ ExecutedAt(ch, t, h)

ExecutedTxs(ch) == { t \in TxIds : InChain(ch, t) }
OwnerTxs(ch) == { t \in ExecutedTxs(ch) : Txs[t].source = Me }
\* get_nonce: the account's next nonce; the call fails for an unregistered account.
DaemonNonce(ch) == Cardinality(OwnerTxs(ch))

\* Does transaction t change the account's balance of asset a ?
TxTouches(t, a) ==
  \/ Txs[t].kind = "burn" /\ Txs[t].source = Me /\ Txs[t].asset = a
  \/ /\ Txs[t].kind = "transfers"
     /\ \E i \in 1..Len(Txs[t].transfers) :
          /\ Txs[t].transfers[i].asset = a
          /\ Txs[t].transfers[i].ok
          /\ (Txs[t].source = Me \/ Txs[t].transfers[i].dest = Me)

\* The block reward, when the wallet mined the block at h.
RewardAt(ch, h, a) ==
  IF a = PARL_ASSET /\ Blocks[ch[h]].miner = Me /\ Blocks[ch[h]].reward THEN {ch[h]} ELSE {}

\* What the block at topoheight h contributes to the account's balance of a:
\* the transactions executed there that touch a, and the block itself (its
\* reward) when the wallet mined it.
Contrib(ch, h, a) ==
  { t \in TxIds : ExecutedAt(ch, t, h) /\ TxTouches(t, a) } \cup RewardAt(ch, h, a)

\* The topoheights that carry a balance version of asset a.
Versions(ch, a) == { h \in 1..Len(ch) : Contrib(ch, h, a) # {} }
\* The balance ciphertext of the version at h: the homomorphic sum of every
\* contribution up to h, kept as the set of contributions.
CipherAt(ch, a, h) == UNION { Contrib(ch, g, a) : g \in 1..h }
HasBalance(ch, a) == Versions(ch, a) # {}
\* get_balance(address, asset) -> {topoheight, version}
BalanceTopo(ch, a) == SetMax(Versions(ch, a))
\* The ciphertext of the latest version.
LatestCipher(ch, a) == CipherAt(ch, a, BalanceTopo(ch, a))
\* version.previous_topoheight
MaxOrNone(S) == IF S = {} THEN None ELSE Some(SetMax(S))
PreviousTopo(ch, a, h) == MaxOrNone({ g \in Versions(ch, a) : g < h })
\* get_account_assets(address)
AccountAssets(ch) == { a \in Assets : HasBalance(ch, a) }
Registered(ch) == AccountAssets(ch) # {}

\* decrypt_ciphertext: the plaintext amount of a ciphertext.
Decrypt(ct) == Cardinality(ct)


(***************************************************************************)
(* Wallet storage.  The storage engine is not part of network_handler.rs;  *)
(* its operations follow the storage contract.                             *)
(*   txs       tx hash -> TransactionEntry [topo, kind, transfers]         *)
(*   changes   topoheight -> block hash (the "changes" index)              *)
(*   synced    synced_topoheight                                           *)
(*   top       top_block_hash, NoHash when none is stored                  *)
(*   nonce     None when no nonce is stored                                *)
(*   balances  asset -> Balance [plain, ct]                                *)
(*   assets    the known assets                                            *)
(*   tx_cache  None, or Some(last_tx_hash_created)                         *)
(*   located   topoheights the Checkpoint Locator put in the changes index *)
(*             (observation only)                                          *)
(***************************************************************************)
InitStorage ==
  [ txs |-> << >>, changes |-> << >>, synced |-> 0, top |-> NoHash, nonce |-> None,
    balances |-> << >>, assets |-> {}, tx_cache |-> None, located |-> {} ]

Put(f, k, v) == [ x \in (DOMAIN f) \cup {k} |-> IF x = k THEN v ELSE f[x] ]
Restrict(f, D) == [ x \in D |-> f[x] ]

HasTransaction(st, h) == h \in DOMAIN st.txs
SaveTransaction(st, h, entry) == [st EXCEPT !.txs = Put(@, h, entry)]
DeleteTransaction(st, h) == [st EXCEPT !.txs = Restrict(@, (DOMAIN @) \ {h})]
DeleteTransactionsAboveTopoheight(st, h) ==
  [st EXCEPT !.txs = Restrict(@, { x \in DOMAIN @ : @[x].topo <= h })]
ClearTxCache(st) == [st EXCEPT !.tx_cache = None]
HasTopoheightInChanges(st, h) == h \in DOMAIN st.changes
AddTopoheightToChanges(st, h, hash) == [st EXCEPT !.changes = Put(@, h, hash)]
\* delete_changes_above_topoheight(h) -> bool: were any deleted ?
ChangesAbove(st, h) == { x \in DOMAIN st.changes : x > h }
DeleteChangesAboveTopoheight(st, h) ==
  [st EXCEPT !.changes = Restrict(@, { x \in DOMAIN @ : x <= h }),
             !.located = { x \in @ : x <= h }]
\* get_highest_topoheight_in_changes_below(max): 0 when there is none.
MaxOrZero(S) == IF S = {} THEN 0 ELSE SetMax(S)
GetHighestTopoheightInChangesBelow(st, max) == MaxOrZero({ x \in DOMAIN st.changes : x <= max })
HasTopBlockHash(st) == st.top # NoHash
ContainsAsset(st, a) == a \in st.assets
HasBalanceFor(st, a) == a \in DOMAIN st.balances
SetBalanceFor(st, a, ct) == [st EXCEPT !.balances = Put(@, a, [plain |-> Decrypt(ct), ct |-> ct])]
HasAnyBalance(st) == DOMAIN st.balances # {}
DeleteBalances(st) == [st EXCEPT !.balances = << >>]
DeleteAssets(st) == [st EXCEPT !.assets = {}]
\* Is the stored ciphertext of asset a other than ct, or missing ?
BalanceDiffers(st, a, ct) == a \notin DOMAIN st.balances \/ st.balances[a].ct # ct

(***************************************************************************)
(* A handler works on a run record: the storage, the wallet events it has  *)
(* propagated (ev), the nonce writes it has made as <<old, new, step>>     *)
(* (nw), whether save_transaction was called for a hash already stored     *)
(* (dup), the errors raised (faults), the steps of sync the pass has       *)
(* entered, in order (steps), and the daemon requests the Head-State       *)
(* Reconciler and the block_ordered arm have made (calls).                 *)
(***************************************************************************)
Event(type, hash, topo, asset, amount) ==
  [type |-> type, hash |-> hash, topo |-> topo, asset |-> asset, amount |-> amount]
NewTransaction(hash, topo) == Event("NewTransaction", hash, topo, "", 0)
BalanceChanged(asset, amount) == Event("BalanceChanged", "", 0, asset, amount)
NewTopoHeight(topo) == Event("NewTopoHeight", "", topo, "", 0)
Rescan(topo) == Event("Rescan", "", topo, "", 0)
NewAsset(asset) == Event("NewAsset", "", 0, asset, 0)
OnlineEvent == Event("Online", "", 0, "", 0)
OfflineEvent == Event("Offline", "", 0, "", 0)

StartRun(st) ==
  [st |-> st, ev |-> << >>, nw |-> << >>, dup |-> FALSE, faults |-> {}, steps |-> << >>,
   calls |-> {}]
Emit(w, e) == [w EXCEPT !.ev = Append(@, e)]
\* An error raised during the run: "mismatch" (NetworkMismatch) or "rpc" (a
\* daemon request that failed).
Fault(w, f) == [w EXCEPT !.faults = @ \cup {f}]
\* The pass enters a step of sync; Phase is the step it is in.
Mark(w, s) == [w EXCEPT !.steps = Append(@, s)]
Phase(w) == IF w.steps = << >> THEN "none" ELSE w.steps[Len(w.steps)]
\* A daemon request is made.
Ask(w, call) == [w EXCEPT !.calls = @ \cup {call}]
\* storage.save_transaction under the write lock
Save(w, h, entry) ==
  [w EXCEPT !.st = SaveTransaction(@, h, entry),
            !.dup = @ \/ HasTransaction(w.st, h)]
\* storage.set_nonce
SetNonce(w, n) ==
  [w EXCEPT !.st.nonce = Some(n), !.nw = Append(@, << w.st.nonce, n, Phase(w) >>)]
\* storage.set_balance_for and the BalanceChanged event
StoreBalance(w, a, ct) ==
  Emit([w EXCEPT !.st = SetBalanceFor(@, a, ct)], BalanceChanged(a, Decrypt(ct)))

(***************************************************************************)
(* Block Processor: process_block(address, block, topoheight).             *)
(* txs is the transaction list the block response carries.  The loop works *)
(* on acc = [w, assets, stored, hn]: the run, assets_changed,               *)
(* changes_stored and our_highest_nonce.                                   *)
(***************************************************************************)
\* The transfers of t the wallet reads: its own (as sender) or those that pay
\* it, less those whose commitment or handle does not decompress.
KeptTransfersAll(t) ==
  LET Mine(tr) == Txs[t].source = Me \/ tr.dest = Me
  IN SelectSeq(Txs[t].transfers, Mine)
KeptTransfers(t) ==
  LET Mine(tr) == (Txs[t].source = Me \/ tr.dest = Me) /\ tr.ok
  IN SelectSeq(Txs[t].transfers, Mine)

\* The EntryData built for transaction t, None when it is not the wallet's.
EntryData(t, kept) ==
  IF Txs[t].kind = "burn"
  THEN IF Txs[t].source = Me THEN Some([kind |-> "Burn", transfers |-> << >>]) ELSE None
  ELSE IF Txs[t].source = Me THEN Some([kind |-> "Outgoing", transfers |-> kept])
       ELSE IF kept # << >> THEN Some([kind |-> "Incoming", transfers |-> kept])
       ELSE None

\* assets_changed.insert(asset) for every transfer kept.
WithAssets(acc, kept) ==
  [acc EXCEPT !.assets = @ \cup { kept[i].asset : i \in 1..Len(kept) }]

\* The has_transaction check that gates the coinbase entry.
IsCoinbaseStoredUngated(st, k) == FALSE
IsCoinbaseStored(st, k) == HasTransaction(st, k)

\* The read-locked has_transaction check that gates a candidate transaction.
IsTxStoredUngated(st, t) == FALSE
IsTxStored(st, t) == HasTransaction(st, t)

\* add_topoheight_to_changes, once per block.
MarkChange(acc, k, topo) ==
  IF acc.stored THEN acc.w ELSE [acc.w EXCEPT !.st = AddTopoheightToChanges(@, topo, k)]

\* The coinbase entry: saved under one write lock unless already stored.
ProcessCoinbase(acc, k, topo) ==
  IF Blocks[k].miner = Me /\ Blocks[k].reward
  THEN IF IsCoinbaseStored(acc.w.st, k)
       THEN [acc EXCEPT !.assets = @ \cup {PARL_ASSET}]
       ELSE [acc EXCEPT
               !.w = Emit(Save(MarkChange(acc, k, topo), k,
                               [topo |-> topo, kind |-> "Coinbase", transfers |-> << >>]),
                          NewTransaction(k, topo)),
               !.assets = @ \cup {PARL_ASSET},
               !.stored = TRUE]
  ELSE acc

\* Where the transaction was executed: in this block, or in its executor's.
TxTopoheight(ch, t, k, topo) ==
  IF IsTxExecutedInBlock(ch, t, k) THEN topo ELSE ExecutorOf(ch, t)

\* get_transaction_executor answers for a transaction the chain executes.
ExecutorKnown(ch, t, k) == IsTxExecutedInBlock(ch, t, k) \/ InChain(ch, t)

\* our_highest_nonce after an owner transaction.
HighestNonce(hn, t) ==
  IF Txs[t].source = Me /\ (hn = None \/ Txs[t].nonce > Get(hn)) THEN Some(Txs[t].nonce) ELSE hn

\* save_transaction, the change marker and the NewTransaction event.
SaveEntry(acc, k, topo, t, entry, tx_topoheight) ==
  [acc EXCEPT
     !.w = Emit(Save(MarkChange(acc, k, topo), t,
                     [topo |-> tx_topoheight, kind |-> entry.kind, transfers |-> entry.transfers]),
                NewTransaction(t, tx_topoheight)),
     !.stored = TRUE,
     !.hn = HighestNonce(@, t)]

\* if let Some(entry) = entry { ... }
ProcessEntry(ch, acc, k, topo, t, entry) ==
  IF entry = None THEN acc
  ELSE IF IsTxStored(acc.w.st, t) THEN acc
  ELSE IF ~ExecutorKnown(ch, t, k) THEN acc
  ELSE SaveEntry(acc, k, topo, t, Get(entry), TxTopoheight(ch, t, k, topo))

\* match tx.data: a burn changes no asset of assets_changed.
Classify(ch, acc, k, topo, t, kept) ==
  ProcessEntry(ch, IF Txs[t].kind = "transfers" THEN WithAssets(acc, kept) ELSE acc,
               k, topo, t, EntryData(t, kept))

\* One iteration of the loop over block.transactions.
ProcessTx(ch, acc, k, topo, t) == Classify(ch, acc, k, topo, t, KeptTransfers(t))

RECURSIVE ProcessTxs(_, _, _, _, _, _)
ProcessTxs(ch, acc, k, topo, txs, i) ==
  IF i > Len(txs) THEN acc
  ELSE ProcessTxs(ch, ProcessTx(ch, acc, k, topo, txs[i]), k, topo, txs, i + 1)

\* Ok(None), or Ok(Some((assets_changed, our_highest_nonce + 1))).
BlockResult(acc) ==
  [err |-> FALSE, w |-> acc.w,
   res |-> IF ~acc.stored \/ acc.assets = {} THEN None
           ELSE Some([assets |-> acc.assets,
                      nonce |-> IF acc.hn = None THEN None ELSE Some(Get(acc.hn) + 1)])]

\* Result: err (NetworkMismatch), the run, and res.
ProcessBlock(ch, w, k, topo, txs) ==
  IF Blocks[k].mainnet # IsMainnet(WalletNetwork)
  THEN [err |-> TRUE, w |-> Fault(w, "mismatch"), res |-> None]
  ELSE BlockResult(ProcessTxs(ch, ProcessCoinbase([w |-> w, assets |-> {}, stored |-> FALSE,
                                                   hn |-> None], k, topo),
                              k, topo, txs, 1))


(***************************************************************************)
(* Asset Balance Walker: get_balance_and_transactions.                     *)
(* wk = [w, processed, hn, err]: the run, topoheight_processed,            *)
(* highest_nonce, and whether the call returned an error.                  *)
(***************************************************************************)
\* Store only the highest nonce.
RaiseNonce(wk, highest_nonce, nonce) ==
  IF nonce # None /\ Get(highest_nonce) < Get(nonce)
  THEN [wk EXCEPT !.w = SetNonce(@, Get(nonce)), !.hn = nonce]
  ELSE [wk EXCEPT !.hn = highest_nonce]

\* Store the balance when none is stored or the ciphertext differs.
RaiseBalance(wk, asset, balance) ==
  IF BalanceDiffers(wk.w.st, asset, balance)
  THEN [wk EXCEPT !.w = StoreBalance(@, asset, balance)]
  ELSE wk

\* The head update of the first iteration, under one write lock.
WalkerHeadUpdate(wk, asset, balance, nonce) ==
  IF wk.hn = None /\ wk.w.st.nonce = None
  THEN [wk EXCEPT !.err = TRUE]                     \* storage.get_nonce()? failed
  ELSE RaiseBalance(RaiseNonce(wk, IF wk.hn = None THEN wk.w.st.nonce ELSE wk.hn, nonce),
                    asset, balance)

\* Is this the iteration that may write the head state ?
UpdatesHeadAnyVersion(changes, balances, highest_version) ==
  changes # None /\ balances
UpdatesHead(changes, balances, highest_version) ==
  changes # None /\ balances /\ highest_version

\* What follows process_block for a topoheight processed for the first time.
AfterBlock(wk, pb, asset, balance, balances, highest_version) ==
  IF pb.err THEN [wk EXCEPT !.err = TRUE, !.w = pb.w]
  ELSE IF UpdatesHead(pb.res, balances, highest_version)
       THEN WalkerHeadUpdate([wk EXCEPT !.w = pb.w], asset, balance, Get(pb.res).nonce)
       ELSE [wk EXCEPT !.w = pb.w]

\* if topoheight_processed.insert(topoheight) { ... }
VisitVersion(ch, wk, asset, balances, topoheight, highest_version) ==
  IF topoheight \in wk.processed THEN wk
  ELSE AfterBlock([wk EXCEPT !.processed = @ \cup {topoheight}],
                  ProcessBlock(ch, wk.w, ch[topoheight], topoheight, Blocks[ch[topoheight]].txs),
                  asset, CipherAt(ch, asset, topoheight), balances, highest_version)

\* The loop over the asset's balance versions, newest first.
RECURSIVE WalkerLoop(_, _, _, _, _, _, _)
WalkerLoop(ch, wk, asset, min_topoheight, balances, topoheight, highest_version) ==
  IF wk.err THEN wk
  ELSE IF topoheight = None THEN wk
  ELSE IF ~highest_version /\ min_topoheight >= Get(topoheight) THEN wk
  ELSE WalkerLoop(ch, VisitVersion(ch, wk, asset, balances, Get(topoheight), highest_version),
                  asset, min_topoheight, balances,
                  PreviousTopo(ch, asset, Get(topoheight)), FALSE)

GetBalanceAndTransactions(ch, wk, asset, min_topoheight, balances) ==
  IF ~HasBalance(ch, asset)
  THEN [wk EXCEPT !.err = TRUE, !.w = Fault(@, "rpc")]           \* get_balance failed
  ELSE IF min_topoheight >= BalanceTopo(ch, asset) THEN wk
  ELSE WalkerLoop(ch, wk, asset, min_topoheight, balances, Some(BalanceTopo(ch, asset)), TRUE)

\* sync_new_blocks: one walk per known asset, in the order the asset set
\* yields them; a walk's error is logged and the next asset is walked.
RECURSIVE WalkAssets(_, _, _, _, _, _)
WalkAssets(ch, wk, assets, current_topoheight, balances, i) ==
  IF i > Len(assets) THEN wk
  ELSE WalkAssets(ch, [GetBalanceAndTransactions(ch, wk, assets[i], current_topoheight, balances)
                         EXCEPT !.err = FALSE],
                  assets, current_topoheight, balances, i + 1)

InOrder(order, S) == LET In(a) == a \in S IN SelectSeq(order, In)

SyncNewBlocks(ch, w, current_topoheight, balances, order) ==
  WalkAssets(ch, [w |-> w, processed |-> {}, hn |-> None, err |-> FALSE],
             InOrder(order, w.st.assets), current_topoheight, balances, 1).w

(***************************************************************************)
(* Checkpoint Locator: locate_sync_topoheight_and_clean.                   *)
(***************************************************************************)
\* What one round of the search leaves: has the loop broken, maximum, the
\* hash it broke with, and whether a daemon request failed.
Round(done, maximum, hash, err) == [done |-> done, maximum |-> maximum, hash |-> hash, err |-> err]

\* One round of the downward search, at the highest marker not above the bound.
LocateAtKeepsMarker(ch, st, maximum, pruned_topoheight) ==
  IF maximum = 0 THEN Round(TRUE, 0, None, FALSE)
  ELSE IF maximum < pruned_topoheight THEN Round(TRUE, maximum, None, FALSE)
  ELSE IF ~BlockKnown(ch, maximum) THEN Round(TRUE, maximum, None, TRUE)
  ELSE IF HashAt(ch, maximum) = st.changes[maximum]
       THEN Round(TRUE, maximum, Some(st.changes[maximum]), FALSE)
  ELSE Round(FALSE, maximum - 1, None, FALSE)
LocateAt(ch, st, maximum, pruned_topoheight) ==
  IF maximum = 0 THEN Round(TRUE, 0, None, FALSE)
  ELSE IF maximum < pruned_topoheight THEN Round(TRUE, pruned_topoheight, None, FALSE)
  ELSE IF ~BlockKnown(ch, maximum) THEN Round(TRUE, maximum, None, TRUE)
  ELSE IF HashAt(ch, maximum) = st.changes[maximum]
       THEN Round(TRUE, maximum, Some(st.changes[maximum]), FALSE)
  ELSE Round(FALSE, maximum - 1, None, FALSE)

SearchRound(ch, st, from, pruned_topoheight) ==
  LocateAt(ch, st, GetHighestTopoheightInChangesBelow(st, from), pruned_topoheight)

\* The downward search over the changes index.
RECURSIVE LocateLoop(_, _, _, _)
NextRound(ch, st, round, pruned_topoheight) ==
  IF round.done THEN round ELSE LocateLoop(ch, st, round.maximum, pruned_topoheight)

LocateLoop(ch, st, from, pruned_topoheight) ==
  NextRound(ch, st, SearchRound(ch, st, from, pruned_topoheight), pruned_topoheight)

\* Changes above the checkpoint are deleted, and transactions with them.
DropAbove(st, maximum) ==
  IF ChangesAbove(st, maximum) # {}
  THEN DeleteTransactionsAboveTopoheight(DeleteChangesAboveTopoheight(st, maximum), maximum)
  ELSE st

\* The head pointer is set to the checkpoint, which gets a marker if it has none.
SetCheckpoint(st, maximum, block_hash) ==
  IF HasTopoheightInChanges(st, maximum)
  THEN [st EXCEPT !.synced = maximum, !.top = block_hash]
  ELSE [AddTopoheightToChanges(st, maximum, block_hash) EXCEPT
          !.synced = maximum, !.top = block_hash, !.located = @ \cup {maximum}]

\* Rescan is propagated unless it is the first sync.
RescannedAlways(w, synced_topoheight, maximum) == Emit(w, Rescan(maximum))
Rescanned(w, synced_topoheight, maximum) ==
  IF synced_topoheight # 0 THEN Emit(w, Rescan(maximum)) ELSE w

\* The cleanup at the chosen checkpoint, under one write lock, and the Rescan event.
CleanAbove(w, synced_topoheight, maximum, block_hash) ==
  Rescanned([w EXCEPT !.st = SetCheckpoint(DropAbove(@, maximum), maximum, block_hash)],
            synced_topoheight, maximum)

LocateResult(err, w, dt, dh, wt, back, path) ==
  [err |-> err, w |-> w, daemon_topoheight |-> dt, daemon_block_hash |-> dh,
   wallet_topoheight |-> wt, sync_back |-> back, path |-> path]

\* What the locator answers when the wallet is above the daemon's chain.
AboveDaemonKeepsHeight(w, dt, dh) == LocateResult(FALSE, w, dt, dh, w.st.synced, FALSE, "above")
AboveDaemon(w, dt, dh) == LocateResult(FALSE, w, dt, dh, 0, TRUE, "above")

\* After the search: the block hash at the checkpoint and the cleanup.  (A
\* round that has not broken the loop: the locator is still searching.)
Located(ch, w, dt, dh, search) ==
  IF ~search.done THEN LocateResult(FALSE, w, dt, dh, search.maximum, TRUE, "search")
  ELSE IF search.err \/ (search.hash = None /\ ~BlockKnown(ch, search.maximum))
  THEN LocateResult(TRUE, Fault(w, "rpc"), dt, dh, 0, FALSE, "rpc")
  ELSE LocateResult(FALSE,
                    CleanAbove(w, w.st.synced, search.maximum,
                               IF search.hash # None THEN Get(search.hash)
                               ELSE HashAt(ch, search.maximum)),
                    dt, dh, search.maximum, TRUE, "clean")

\* With get_info's answer (dt, dh): the early returns, then what follows the
\* search.
LocateFrom(ch, w, dt, dh, search) ==
  IF DaemonNetwork # WalletNetwork
  THEN LocateResult(TRUE, Fault(w, "mismatch"), dt, dh, 0, FALSE, "mismatch")
  ELSE IF HasTopBlockHash(w.st) /\ dt = w.st.synced /\ dh = w.st.top
       THEN LocateResult(FALSE, w, dt, dh, w.st.synced, FALSE, "fast")
  ELSE IF HasTopBlockHash(w.st) /\ w.st.synced > dt
       THEN AboveDaemon(w, dt, dh)
  ELSE IF /\ HasTopBlockHash(w.st)
          /\ w.st.synced > PrunedTopoheight
          /\ HashAt(ch, w.st.synced) = w.st.top
       THEN LocateResult(FALSE, w, dt, dh, w.st.synced, FALSE, "probe")
  ELSE Located(ch, w, dt, dh, search)

LocateSyncTopoheightAndClean(ch, w) ==
  LocateFrom(ch, w, DaemonTopoheight(ch), HashAt(ch, DaemonTopoheight(ch)),
             LocateLoop(ch, w.st, w.st.synced, PrunedTopoheight))


(***************************************************************************)
(* Head-State Reconciler: sync_head_state(address, assets, nonce,          *)
(* sync_nonce).  Result [err, w, flag]: flag is should_sync_blocks.        *)
(***************************************************************************)
\* An asset the wallet does not know is added, and NewAsset propagated.
RegisterAsset(w, a) ==
  IF ContainsAsset(w.st, a) THEN w
  ELSE Emit(Ask([w EXCEPT !.st.assets = @ \cup {a}], "api.get_asset"), NewAsset(a))

\* get_balance for the asset: it fails for an asset the account has no balance of.
AskBalance(ch, w, a) ==
  IF HasBalance(ch, a) THEN Ask(w, "api.get_balance") ELSE Fault(Ask(w, "api.get_balance"), "rpc")

\* The first loop: register unknown assets, fetch each asset's latest balance
\* (get_balance fails for an asset the account has no balance of).
RECURSIVE DiscoverAssets(_, _, _, _)
DiscoverAssets(ch, r, assets, i) ==
  IF i > Len(assets) \/ r.err THEN r
  ELSE DiscoverAssets(ch, [r EXCEPT !.w = AskBalance(ch, RegisterAsset(@, assets[i]), assets[i]),
                                    !.err = ~HasBalance(ch, assets[i])],
                      assets, i + 1)

\* The nonce write: the resolved nonce is stored when it differs from the stored one.
MustStoreNonce(st, new_nonce) == st.nonce = None \/ Get(st.nonce) # new_nonce

ApplyNonce(r, new_nonce) ==
  IF new_nonce # None /\ MustStoreNonce(r.w.st, Get(new_nonce))
  THEN [r EXCEPT !.w = SetNonce(@, Get(new_nonce)), !.flag = TRUE]
  ELSE r

\* must_update: the BalanceChanged event, then set_balance_for.
ApplyBalance(r, a, ciphertext) ==
  IF BalanceDiffers(r.w.st, a, ciphertext)
  THEN [r EXCEPT !.w = StoreBalance(@, a, ciphertext), !.flag = TRUE]
  ELSE r

\* The second loop: store every balance whose ciphertext differs.
RECURSIVE ApplyBalances(_, _, _, _)
ApplyBalances(ch, r, assets, i) ==
  IF i > Len(assets) THEN r
  ELSE ApplyBalances(ch, ApplyBalance(r, assets[i], LatestCipher(ch, assets[i])), assets, i + 1)

\* The account is unregistered: wipe balances and asset metadata, return Ok(false).
UnregisteredKeepsAssets(w) ==
  [err |-> FALSE, flag |-> FALSE,
   w |-> IF HasAnyBalance(w.st) THEN [w EXCEPT !.st = DeleteBalances(@)] ELSE w]
Unregistered(w) ==
  [err |-> FALSE, flag |-> FALSE,
   w |-> IF HasAnyBalance(w.st)
         THEN [w EXCEPT !.st = DeleteAssets(DeleteBalances(@))]
         ELSE w]

\* new_nonce: the nonce given, or the daemon's when sync_nonce asks for it.
ResolveNonceFetches(ch, nonce, sync_nonce) ==
  IF nonce # None THEN nonce ELSE Some(DaemonNonce(ch))
ResolveNonce(ch, nonce, sync_nonce) ==
  IF nonce # None THEN nonce
  ELSE IF sync_nonce THEN Some(DaemonNonce(ch))
  ELSE None

\* "Apply changes", unless the first loop failed.
ApplyHeadState(ch, found, new_nonce, list) ==
  IF found.err THEN found
  ELSE ApplyBalances(ch, ApplyNonce(found, new_nonce), list, 1)

\* The two loops over the asset list.
HeadStateFor(ch, w, new_nonce, list) ==
  ApplyHeadState(ch, DiscoverAssets(ch, [err |-> FALSE, w |-> w, flag |-> FALSE], list, 1),
                 new_nonce, list)

\* The requests made before the loops: get_nonce when no nonce is given and
\* sync_nonce asks for it, get_account_assets when no assets are given.
HeadRequests(w, assets, nonce, sync_nonce) ==
  [w EXCEPT !.calls = @ \cup (IF nonce = None /\ sync_nonce THEN {"api.get_nonce"} ELSE {})
                         \cup (IF assets = None THEN {"api.get_account_assets"} ELSE {})]

SyncHeadState(ch, w, assets, nonce, sync_nonce, order) ==
  IF nonce = None /\ sync_nonce /\ ~Registered(ch) THEN Unregistered(Ask(w, "api.get_nonce"))
  ELSE HeadStateFor(ch, HeadRequests(w, assets, nonce, sync_nonce),
                    ResolveNonce(ch, nonce, sync_nonce),
                    InOrder(order, IF assets # None THEN Get(assets) ELSE AccountAssets(ch)))

(***************************************************************************)
(* sync(address, event).  event is None or Some([block, topoheight]), the  *)
(* topoheight itself None for a block the DAG has not ordered.             *)
(* Result: ok, the run, and what the pass saw and did.                     *)
(***************************************************************************)
SyncResult(ok, w, loc, walked, hit) ==
  [ok |-> ok, w |-> w, daemon_topoheight |-> loc.daemon_topoheight,
   daemon_block_hash |-> loc.daemon_block_hash, wallet_topoheight |-> loc.wallet_topoheight,
   sync_back |-> loc.sync_back, path |-> loc.path, walked |-> walked, hit |-> hit]

\* A nonce hint that is not above the stored nonce is dropped.
StoredNonceOrZero(st) == IF st.nonce = None THEN 0 ELSE Get(st.nonce)
NonceHint(st, nonce) ==
  IF nonce # None /\ Get(nonce) <= StoredNonceOrZero(st) THEN None ELSE nonce

\* The last step: advance the head pointer and tell the wallet.
AdvanceHeadStale(w, daemon_topoheight, daemon_block_hash) ==
  Emit(w, NewTopoHeight(daemon_topoheight))
AdvanceHeadNoHash(w, daemon_topoheight, daemon_block_hash) ==
  Emit([w EXCEPT !.st.synced = daemon_topoheight], NewTopoHeight(daemon_topoheight))
AdvanceHead(w, daemon_topoheight, daemon_block_hash) ==
  Emit([w EXCEPT !.st.synced = daemon_topoheight, !.st.top = daemon_block_hash],
       NewTopoHeight(daemon_topoheight))

\* The state of a pass before its walk: [err, w, flag, hit], flag being
\* sync_new_blocks and hit whether the pushed block held changes.
Stage(err, w, flag, hit) == [err |-> err, w |-> w, flag |-> flag, hit |-> hit]

\* sync_new_blocks |= sync_head_state(address, Some(assets), nonce, false)
AfterHead(back, head) == Stage(head.err, head.w, back.flag \/ head.flag, TRUE)

\* if let Some((assets, nonce)) = process_block(...)?
AfterProcess(ch, back, pb, order) ==
  IF pb.err THEN Stage(TRUE, pb.w, FALSE, FALSE)
  ELSE IF pb.res = None THEN Stage(FALSE, pb.w, back.flag, FALSE)
  ELSE AfterHead(back, SyncHeadState(ch, pb.w, Some(Get(pb.res).assets),
                                     NonceHint(pb.w.st, Get(pb.res).nonce), FALSE, order))

\* if let Some(block) = event { ... } else { sync_new_blocks = true }
HandleEvent(ch, back, event, order) ==
  IF event = None THEN Stage(FALSE, back.w, TRUE, FALSE)
  ELSE IF Get(event).topoheight = None THEN Stage(FALSE, back.w, back.flag, FALSE)
  ELSE AfterProcess(ch, back,
                    ProcessBlock(ch, Mark(back.w, "block"), Get(event).block,
                                 Get(Get(event).topoheight),
                                 Blocks[Get(event).block].txs),
                    order)

\* if sync_new_blocks { sync_new_blocks(address, wallet_topoheight, true) }
Walked(ch, stage, wallet_topoheight, order) ==
  IF stage.flag THEN SyncNewBlocks(ch, Mark(stage.w, "walk"), wallet_topoheight, TRUE, order)
  ELSE stage.w

\* The walk, then the head pointer.
SyncFinishAdvancesFirst(ch, loc, stage, order) ==
  IF stage.err THEN SyncResult(FALSE, stage.w, loc, FALSE, stage.hit)
  ELSE SyncResult(TRUE,
                  Walked(ch, [stage EXCEPT !.w = AdvanceHead(Mark(@, "advance"),
                                                             loc.daemon_topoheight,
                                                             loc.daemon_block_hash)],
                         loc.wallet_topoheight, order),
                  loc, stage.flag, stage.hit)
SyncFinish(ch, loc, stage, order) ==
  IF stage.err THEN SyncResult(FALSE, stage.w, loc, FALSE, stage.hit)
  ELSE SyncResult(TRUE,
                  AdvanceHead(Mark(Walked(ch, stage, loc.wallet_topoheight, order), "advance"),
                              loc.daemon_topoheight, loc.daemon_block_hash),
                  loc, stage.flag, stage.hit)

SyncBack(ch, loc, back, event, order) ==
  IF back.err THEN SyncResult(FALSE, back.w, loc, FALSE, FALSE)
  ELSE SyncFinish(ch, loc, HandleEvent(ch, back, event, order), order)

SyncLocated(ch, loc, event, order) ==
  IF loc.err THEN SyncResult(FALSE, loc.w, loc, FALSE, FALSE)
  ELSE SyncBack(ch, loc,
                IF loc.sync_back
                THEN SyncHeadState(ch, Mark(loc.w, "head"), None, None, TRUE, order)
                ELSE [err |-> FALSE, w |-> loc.w, flag |-> FALSE],
                event, order)

Sync(ch, st, event, order) ==
  SyncLocated(ch, LocateSyncTopoheightAndClean(ch, Mark(StartRun(st), "locate")), event, order)


(***************************************************************************)
(* The daemon: its chain grows by one block, or loses its top block (a     *)
(* rewind; followed by other blocks, a reorg).  A block may be added when  *)
(* every transaction of the wallet that it would execute carries the       *)
(* account's next nonce.                                                   *)
(***************************************************************************)
CanExecute(ch, k) ==
  \A i \in 1..Len(Blocks[k].txs) :
     (Txs[Blocks[k].txs[i]].source = Me /\ ~InChain(ch, Blocks[k].txs[i]))
        => Txs[Blocks[k].txs[i]].nonce = DaemonNonce(ch)

Idle == pc \in {"boot", "loop"}

AddBlock(k) ==
  /\ Idle
  /\ moves < MaxMoves
  /\ Len(chain) < MaxTopo
  /\ k \in family
  /\ k \notin Range(chain)
  /\ CanExecute(chain, k)
  /\ chain' = Append(chain, k)
  /\ moves' = moves + 1
  /\ sincesync' = FALSE
  /\ UNCHANGED << family, pruned, storage, pc, last, events, lifeVars, step >>

PopBlock ==
  /\ Idle
  /\ moves < MaxMoves
  /\ Len(chain) > 0
  /\ chain' = SubSeq(chain, 1, Len(chain) - 1)
  /\ moves' = moves + 1
  /\ sincesync' = FALSE
  /\ UNCHANGED << family, pruned, storage, pc, last, events, lifeVars, step >>

(***************************************************************************)
(* The supervisor: start_syncing.                                          *)
(***************************************************************************)
\* The orders in which a set of assets may be iterated.
Orders == { << PARL_ASSET, AssetX >>, << AssetX, PARL_ASSET >> }

\* What a handler leaves in last, with the run's nw, dup, faults, steps and
\* calls.  quiet: nothing had happened since the last
\* successful sync when the handler ran; replay: moreover the pushed block's
\* entries were all stored already; created: the orphaned transaction was the
\* tx cache's last_tx_hash_created when the event arrived.
Plain(op, ok, w) ==
  [op |-> op, ok |-> ok, event |-> None,
   daemon_topoheight |-> 0, daemon_block_hash |-> NoHash,
   wallet_topoheight |-> 0, sync_back |-> FALSE, path |-> "",
   walked |-> FALSE, hit |-> FALSE, nw |-> w.nw, dup |-> w.dup, faults |-> w.faults,
   steps |-> w.steps, calls |-> w.calls,
   quiet |-> FALSE, replay |-> FALSE, created |-> FALSE]

Observed(op, r, event, quiet, replay) ==
  [op |-> op, ok |-> r.ok, event |-> event,
   daemon_topoheight |-> r.daemon_topoheight, daemon_block_hash |-> r.daemon_block_hash,
   wallet_topoheight |-> r.wallet_topoheight, sync_back |-> r.sync_back, path |-> r.path,
   walked |-> r.walked, hit |-> r.hit, nw |-> r.w.nw, dup |-> r.w.dup,
   faults |-> r.w.faults, steps |-> r.w.steps, calls |-> r.w.calls,
   quiet |-> quiet, replay |-> replay, created |-> FALSE]

\* The hashes of the entries process_block builds for block k.
EntriesOf(k) ==
  { Blocks[k].txs[i] : i \in { j \in 1..Len(Blocks[k].txs) :
                                  EntryData(Blocks[k].txs[j], KeptTransfers(Blocks[k].txs[j])) # None } }
    \cup (IF Blocks[k].miner = Me /\ Blocks[k].reward THEN {k} ELSE {})

\* Has block k been processed: is every entry it yields stored ?
AlreadyProcessed(st, k) == EntriesOf(k) \subseteq DOMAIN st.txs

\* self.sync(&address, None).await? before the subscriptions
Bootstrap ==
  /\ pc = "boot"
  /\ \E order \in Orders :
       \E r \in { Sync(chain, storage, None, order) } :
          /\ storage' = r.w.st
          /\ events' = r.w.ev
          /\ last' = Observed("bootstrap", r, None, sincesync, FALSE)
          /\ pc' = IF r.ok THEN "ok" ELSE "err"
          /\ sincesync' = r.ok
  /\ UNCHANGED << family, pruned, moves, chain, lifeVars, step >>

\* The new_block events the daemon may have pushed: a block of its chain
\* with its topoheight, or a block the DAG has not ordered.
NewBlockEvents ==
  { Some([block |-> chain[h], topoheight |-> Some(h)]) : h \in 1..Len(chain) }
    \cup { Some([block |-> k, topoheight |-> None]) : k \in family \ Range(chain) }

OnNewBlock ==
  /\ pc = "loop"
  /\ \E event \in NewBlockEvents, order \in Orders :
       \E r \in { Sync(chain, storage, event, order) } :
          /\ storage' = r.w.st
          /\ events' = r.w.ev
          /\ last' = Observed("new_block", r, event, sincesync,
                              /\ sincesync
                              /\ Get(event).topoheight # None
                              /\ AlreadyProcessed(storage, Get(event).block))
          /\ pc' = IF r.ok THEN "ok" ELSE "err"
          /\ sincesync' = r.ok
  /\ UNCHANGED << family, pruned, moves, chain, lifeVars, step >>

\* get_block_at_topoheight answers with the block header: no transactions.
HeaderTxs(k) == << >>

\* The write-locked part of the block_ordered arm.
RestartFromAlways(st, topoheight, block_hash) ==
  [st EXCEPT !.synced = topoheight, !.top = block_hash]
RestartFrom(st, topoheight, block_hash) ==
  IF st.synced > topoheight
  THEN [st EXCEPT !.synced = topoheight, !.top = block_hash]
  ELSE st

ReorgAt(st, topoheight, block_hash) ==
  RestartFrom(DeleteChangesAboveTopoheight(st, topoheight - 1), topoheight, block_hash)

IsReorg(st, topoheight, block_hash) ==
  /\ HasTopoheightInChanges(st, topoheight)
  /\ topoheight # 0
  /\ st.changes[topoheight] # block_hash

Reprocessed(pb) == [err |-> pb.err, w |-> pb.w, reorg |-> TRUE]

\* The block_ordered arm: [err, w, reorg].
BlockOrdered(ch, st, topoheight, block_hash) ==
  IF IsReorg(st, topoheight, block_hash)
  THEN Reprocessed(ProcessBlock(ch, Ask(StartRun(ReorgAt(st, topoheight, block_hash)),
                                        "api.get_block_at_topoheight"),
                                block_hash, topoheight, HeaderTxs(block_hash)))
  ELSE [err |-> FALSE, w |-> StartRun(st), reorg |-> FALSE]

OnBlockOrdered ==
  /\ pc = "loop"
  /\ \E topoheight \in 0..Len(chain) :
       \E r \in { BlockOrdered(chain, storage, topoheight, HashAt(chain, topoheight)) } :
          /\ storage' = r.w.st
          /\ events' = r.w.ev
          /\ last' = [Plain("block_ordered", ~r.err, r.w) EXCEPT
                        !.event = Some([block |-> HashAt(chain, topoheight),
                                        topoheight |-> Some(topoheight)]),
                        !.hit = r.reorg]
          /\ pc' = IF r.err THEN "err" ELSE "ok"
          /\ sincesync' = FALSE
  /\ UNCHANGED << family, pruned, moves, chain, lifeVars, step >>

\* get_tx_cache().is_some_and(|cache| cache.last_tx_hash_created == hash)
ForgetCreatedAlways(st, t) == ClearTxCache(st)
ForgetCreated(st, t) == IF st.tx_cache = Some(t) THEN ClearTxCache(st) ELSE st

\* The transaction_orphaned arm.
TransactionOrphaned(st, t) ==
  ForgetCreated(IF HasTransaction(st, t) THEN DeleteTransaction(st, t) ELSE st, t)

\* The transactions the daemon may report orphaned: those its chain does not execute.
OnTransactionOrphaned ==
  /\ pc = "loop"
  /\ \E t \in TxIds \ ExecutedTxs(chain) :
       /\ storage' = TransactionOrphaned(storage, t)
       /\ events' = << >>
       /\ last' = [Plain("transaction_orphaned", TRUE, StartRun(InitStorage)) EXCEPT
                     !.event = Some([block |-> t, topoheight |-> None]),
                     !.hit = HasTransaction(storage, t),
                     !.created = storage.tx_cache = Some(t)]
       /\ pc' = "ok"
       /\ sincesync' = FALSE
  /\ UNCHANGED << family, pruned, moves, chain, lifeVars, step >>

\* on_connection: sync, then Online.
OnConnection ==
  /\ pc = "loop"
  /\ \E order \in Orders :
       \E r \in { Sync(chain, storage, None, order) } :
          /\ storage' = r.w.st
          /\ events' = IF r.ok THEN Append(r.w.ev, OnlineEvent) ELSE r.w.ev
          /\ last' = Observed("connection", r, None, sincesync, FALSE)
          /\ pc' = IF r.ok THEN "ok" ELSE "err"
          /\ sincesync' = r.ok
  /\ UNCHANGED << family, pruned, moves, chain, lifeVars, step >>

\* on_connection_lost: Offline.
OnConnectionLost ==
  /\ pc = "loop"
  /\ events' = << OfflineEvent >>
  /\ last' = Plain("connection_lost", TRUE, StartRun(InitStorage))
  /\ pc' = "ok"
  /\ UNCHANGED << family, pruned, moves, chain, storage, sincesync, lifeVars, step >>

\* The handler has returned: the loop selects again, or start_syncing returns
\* its error and the task's loop calls it anew.
Resume ==
  /\ pc \in {"ok", "err"}
  /\ pc' = IF pc = "ok" THEN "loop" ELSE "boot"
  /\ last' = Plain("none", TRUE, StartRun(InitStorage))
  /\ events' = << >>
  /\ UNCHANGED << family, pruned, moves, chain, storage, sincesync, lifeVars, step >>

SyncInit ==
  /\ family \in Families
  /\ pruned = NotPruned
  /\ moves = 0
  /\ chain = << >>
  /\ storage = InitStorage
  /\ pc = "boot"
  /\ sincesync = FALSE
  /\ last = Plain("none", TRUE, StartRun(InitStorage))
  /\ events = << >>

(***************************************************************************)
(* The lifecycle controller: start, stop, is_running and the spawned task. *)
(* A task is [state, auto]: "syncing" while its loop runs, "finished" once *)
(* the loop has returned, "aborted" once stop has aborted it.              *)
(***************************************************************************)
\* handle.is_finished()
IsFinished(ts, hd) == ts[Get(hd)].state = "finished"

\* is_running()
IsRunning(hd, ts, on) == hd # None /\ ~IsFinished(ts, hd) /\ on

\* api.reconnect(): Ok(true), Ok(false) or Err.
ReconnectOutcomes == {"connected", "refused", "error"}

Call(hd, ts, on, ev, result) ==
  [handle |-> hd, tasks |-> ts, online |-> on, log |-> ev, result |-> result]

\* The last event the wallet has been given once the events ev are propagated.
Delivered(previous, ev) == IF ev = << >> THEN previous ELSE ev[Len(ev)]

\* The task is spawned and stored in self.task; Online is propagated.
Spawn(ts, auto_reconnect) ==
  Call(Some(Len(ts) + 1), Append(ts, [state |-> "syncing", auto |-> auto_reconnect]),
       TRUE, << "Online" >>, "Ok")

\* start(auto_reconnect), with the outcome of api.reconnect() should it be called.
StartCall(hd, ts, on, auto_reconnect, outcome) ==
  IF IsRunning(hd, ts, on) THEN Call(hd, ts, on, << >>, "AlreadyRunning")
  ELSE IF ~on /\ outcome = "error" THEN Call(hd, ts, on, << >>, "DaemonAPIError")
  ELSE IF ~on /\ outcome = "refused" THEN Call(hd, ts, on, << >>, "NotRunning")
  ELSE Spawn(ts, auto_reconnect)

\* ret when the last step was no call of start or stop.
NoCall ==
  [op |-> "none", result |-> "Ok", had |-> FALSE, live |-> FALSE,
   was_online |-> TRUE, changed |-> FALSE, offline |-> FALSE]

\* What ret keeps of a call: the result, and what the call found.
Returned(op, r, hd, ts, on) ==
  [op |-> op, result |-> r.result,
   had |-> hd # None,
   live |-> hd # None /\ ~IsFinished(ts, hd),
   was_online |-> on,
   changed |-> << r.handle, r.tasks, r.online >> # << hd, ts, on >>,
   offline |-> "Offline" \in Range(r.log)]

Start ==
  \E auto_reconnect \in BOOLEAN, outcome \in ReconnectOutcomes :
     \E r \in { StartCall(handle, tasks, online, auto_reconnect, outcome) } :
        /\ Len(r.tasks) <= MaxTasks
        /\ handle' = r.handle
        /\ tasks' = r.tasks
        /\ online' = r.online
        /\ log' = r.log
        /\ net' = Delivered(net, r.log)
        /\ ret' = Returned("start", r, handle, tasks, online)
        /\ UNCHANGED << syncVars, step >>

\* stop(): a finished task has ended with an error, which handle.await?? returns.
StopCall(hd, ts, on) ==
  IF hd = None THEN Call(hd, ts, on, << >>, "NotRunning")
  ELSE IF IsFinished(ts, hd) THEN Call(None, ts, on, << >>, "DaemonAPIError")
  ELSE Call(None, [ts EXCEPT ![Get(hd)].state = "aborted"], FALSE, << "Offline" >>, "Ok")

Stop ==
  \E r \in { StopCall(handle, tasks, online) } :
     /\ handle' = r.handle
     /\ tasks' = r.tasks
     /\ online' = r.online
     /\ log' = r.log
     /\ net' = Delivered(net, r.log)
     /\ ret' = Returned("stop", r, handle, tasks, online)
     /\ UNCHANGED << syncVars, step >>

\* One round of the task's loop once start_syncing has returned its error:
\* [state, online, log].
LoopRound(state, on, ev) == [state |-> state, online |-> on, log |-> ev]

TaskRound(task, on, outcome) ==
  IF ~task.auto THEN LoopRound("finished", FALSE, << "Offline" >>)
  ELSE IF on THEN LoopRound("syncing", on, << "Offline" >>)
  ELSE IF outcome = "error" THEN LoopRound("finished", on, << "Offline" >>)
  ELSE IF outcome = "refused" THEN LoopRound("syncing", on, << "Offline" >>)
  ELSE LoopRound("syncing", TRUE, << "Offline", "Online" >>)

SyncingFails ==
  \E i \in 1..Len(tasks), outcome \in ReconnectOutcomes :
     /\ tasks[i].state = "syncing"
     /\ \E r \in { TaskRound(tasks[i], online, outcome) } :
          /\ tasks' = [tasks EXCEPT ![i].state = r.state]
          /\ online' = r.online
          /\ log' = r.log
          /\ net' = Delivered(net, r.log)
     /\ ret' = NoCall
     /\ UNCHANGED << handle, syncVars, step >>

\* The events every task in its select loop propagates.
FromLoops(ts, e) == [ i \in 1..Cardinality({ j \in 1..Len(ts) : ts[j].state = "syncing" }) |-> e ]

\* The connection is lost: on_connection_lost fires in every running loop.
ConnectionLost ==
  /\ online
  /\ online' = FALSE
  /\ log' = FromLoops(tasks, "Offline")
  /\ net' = Delivered(net, FromLoops(tasks, "Offline"))
  /\ ret' = NoCall
  /\ UNCHANGED << handle, tasks, syncVars, step >>

\* Another holder of the shared DaemonAPI reconnects it: on_connection fires
\* in every running loop.
Reconnected ==
  /\ ~online
  /\ online' = TRUE
  /\ log' = FromLoops(tasks, "Online")
  /\ net' = Delivered(net, FromLoops(tasks, "Online"))
  /\ ret' = NoCall
  /\ UNCHANGED << handle, tasks, syncVars, step >>

NoStep == [at |-> "none"]

LifeInit ==
  /\ handle = None
  /\ tasks = << >>
  /\ online = TRUE
  /\ log = << >>
  /\ ret = NoCall
  /\ net = "none"

Init == SyncInit /\ LifeInit /\ step = NoStep

Next ==
  \/ \E k \in BlockIds : AddBlock(k)
  \/ PopBlock
  \/ Bootstrap
  \/ OnNewBlock
  \/ OnBlockOrdered
  \/ OnTransactionOrphaned
  \/ OnConnection
  \/ OnConnectionLost
  \/ Resume

Spec == Init /\ [][Next]_vars

LifeNext ==
  \/ Start
  \/ Stop
  \/ SyncingFails
  \/ ConnectionLost
  \/ Reconnected

LifeSpec == Init /\ [][LifeNext]_vars


(***************************************************************************)
(* The Checkpoint Locator, round by round: one step per round of its loop. *)
(* The wallet's storage is any storage earlier passes, reorgs and rewinds  *)
(* may have left; the daemon's chain is a prefix of LocOrder, pruned up to *)
(* any of its topoheights, serving the headers below that or not.  No      *)
(* top_block_hash is stored before the first head pointer is written, and  *)
(* synced_topoheight is 0 until then.                                      *)
(* step = [at, maximum, rounds, round]: where the locator is, the bound of *)
(* the next round, the rounds run and what the last round left.            *)
(***************************************************************************)
LocOrder == << "E", "CB", "IN", "MULTI", "DUP", "BURN" >>
\* A hash no block of LocOrder has: the wallet followed another chain.
ForeignHash == "BAD"

\* The hashes a changes marker or top_block_hash at topoheight h may hold.
HashesAt(h) == { HashAt(LocOrder, h), ForeignHash }

\* The changes indexes over the topoheights 0..MaxTopo.
ChangesIndexes ==
  UNION { { f \in [D -> Range(LocOrder) \cup {GenesisHash, ForeignHash}] :
              \A h \in D : f[h] \in HashesAt(h) } : D \in SUBSET (0..MaxTopo) }

LocAt(at, maximum, rounds, round) ==
  [at |-> at, maximum |-> maximum, rounds |-> rounds, round |-> round]

LocInit ==
  /\ family = Range(LocOrder)
  /\ moves = 0
  /\ \E n \in 0..MaxTopo : chain = SubSeq(LocOrder, 1, n)
  /\ \E p \in 0..MaxTopo, headers \in BOOLEAN :
        /\ p <= Len(chain)
        /\ pruned = [topoheight |-> p, headers |-> headers]
  /\ \E f \in ChangesIndexes, s \in 0..MaxTopo :
        \E t \in HashesAt(s) \cup {NoHash} :
           /\ t = NoHash => s = 0
           /\ storage = [InitStorage EXCEPT !.changes = f, !.synced = s, !.top = t]
  /\ pc = "boot"
  /\ sincesync = FALSE
  /\ last = Plain("none", TRUE, StartRun(InitStorage))
  /\ events = << >>
  /\ LifeInit
  /\ step = LocAt("start", 0, 0, Round(FALSE, 0, None, FALSE))

\* What the locator leaves in last when it returns.
LocReturned(loc) ==
  Observed("locate", SyncResult(~loc.err, loc.w, loc, FALSE, FALSE), None, FALSE, FALSE)

\* get_info, the network check and the early returns; otherwise the loop is entered.
LocStart ==
  /\ step.at = "start"
  /\ \E loc \in { LocateFrom(chain, StartRun(storage), DaemonTopoheight(chain),
                             HashAt(chain, DaemonTopoheight(chain)),
                             Round(FALSE, storage.synced, None, FALSE)) } :
        IF loc.path = "search"
        THEN /\ step' = LocAt("search", loc.wallet_topoheight, 0, step.round)
             /\ UNCHANGED << storage, last, events >>
        ELSE /\ step' = LocAt("done", step.maximum, 0, step.round)
             /\ storage' = loc.w.st
             /\ events' = loc.w.ev
             /\ last' = LocReturned(loc)
  /\ UNCHANGED << family, pruned, moves, chain, pc, sincesync, lifeVars >>

\* One round of the loop.
LocRound ==
  /\ step.at = "search"
  /\ \E round \in { SearchRound(chain, storage, step.maximum, PrunedTopoheight) } :
        step' = LocAt(IF round.done THEN "found" ELSE "search", round.maximum,
                      step.rounds + 1, round)
  /\ UNCHANGED << syncVars, lifeVars >>

\* After the loop: the checkpoint's block hash, the cleanup, the return.
LocFinish ==
  /\ step.at = "found"
  /\ \E loc \in { Located(chain, StartRun(storage), DaemonTopoheight(chain),
                          HashAt(chain, DaemonTopoheight(chain)), step.round) } :
        /\ storage' = loc.w.st
        /\ events' = loc.w.ev
        /\ last' = LocReturned(loc)
  /\ step' = [step EXCEPT !.at = "done"]
  /\ UNCHANGED << family, pruned, moves, chain, pc, sincesync, lifeVars >>

LocNext ==
  \/ LocStart
  \/ LocRound
  \/ LocFinish

\* The task that runs the locator is scheduled, and each of its daemon
\* requests and storage reads returns.
LocSpec == LocInit /\ [][LocNext]_vars /\ WF_vars(LocNext)

(***************************************************************************)
(* The transaction_orphaned arm over the storages a wallet may hold when   *)
(* the event arrives.  The wallet has synced to the first one or two       *)
(* blocks of OrphanOrder and may have lost entries to earlier orphan       *)
(* events; its tx cache is empty or names a transaction it created, which  *)
(* need not be executed yet.  The daemon has since rewound its chain.      *)
(***************************************************************************)
OrphanOrder == << "DUP", "BURN" >>

\* The entry process_block stored for transaction t of block OrphanOrder[h].
StoredEntry(t, h) ==
  [topo |-> h, kind |-> Get(EntryData(t, KeptTransfers(t))).kind,
   transfers |-> Get(EntryData(t, KeptTransfers(t))).transfers]

\* The storage after a sync to the first n blocks, keeping the entries of T.
SyncedTo(n, T, cache) ==
  [InitStorage EXCEPT
     !.txs = [ t \in T |-> StoredEntry(t, ExecutorOf(SubSeq(OrphanOrder, 1, n), t)) ],
     !.changes = [ h \in 0..n |-> HashAt(OrphanOrder, h) ],
     !.synced = n,
     !.top = OrphanOrder[n],
     !.nonce = Some(DaemonNonce(SubSeq(OrphanOrder, 1, n))),
     !.balances = [ a \in {AssetX} |->
                      [plain |-> Decrypt(LatestCipher(SubSeq(OrphanOrder, 1, n), a)),
                       ct |-> LatestCipher(SubSeq(OrphanOrder, 1, n), a)] ],
     !.assets = {AssetX},
     !.tx_cache = cache,
     !.located = {0}]

OrphanInit ==
  /\ family = {"E", "IN", "DUP", "BURN"}
  /\ pruned = NotPruned
  /\ moves = 0
  /\ chain = << >>
  /\ \E n \in 1..Len(OrphanOrder) :
        \E T \in SUBSET ExecutedTxs(SubSeq(OrphanOrder, 1, n)),
           cache \in {None} \cup { Some(t) : t \in OwnerTxs(OrphanOrder) } :
           storage = SyncedTo(n, T, cache)
  /\ pc = "loop"
  /\ sincesync = FALSE
  /\ last = Plain("none", TRUE, StartRun(InitStorage))
  /\ events = << >>
  /\ LifeInit
  /\ step = NoStep

OrphanNext ==
  \/ OnTransactionOrphaned
  \/ Resume

OrphanSpec == OrphanInit /\ [][OrphanNext]_vars

(***************************************************************************)
(* The sync task between its suspension points.  A section of the pass is  *)
(* a sequence of calls, each [call, x, y]; the task is suspended in one    *)
(* call at a time, and the calls that cannot suspend (those the code does  *)
(* not await) are made in one go with the call that precedes them.  A      *)
(* call's effect on the storage takes place when the call returns.  stop() *)
(* may abort the task wherever it is suspended.  Which section the pass    *)
(* runs next is decided by code outside the sections; here any section     *)
(* whose condition holds may come next.                                    *)
(* step = [at, prog, i, lock]: "idle", "await" or "aborted"; the section;  *)
(* the call the task is suspended in; the storage guard it holds.          *)
(***************************************************************************)
Ins(call, x, y) == [call |-> call, x |-> x, y |-> y]
Do(call) == Ins(call, 0, 0)

\* The calls that are not awaited: they return before the task can be aborted.
SyncCalls ==
  { "storage.has_transaction", "storage.save_transaction", "storage.add_topoheight_to_changes",
    "storage.get_nonce", "storage.set_nonce", "storage.set_synced_topoheight",
    "storage.set_top_block_hash", "drop" }
Suspends(call) == call \notin SyncCalls

\* What the task waits for inside a call.
Kind(call) ==
  IF call \in {"api.get_nonce", "api.get_asset", "api.get_balance", "api.is_tx_executed_in_block"}
  THEN "daemon"
  ELSE IF call = "wallet.decrypt_ciphertext" THEN "decrypt"
  ELSE IF call = "wallet.propagate_event" THEN "event"
  ELSE IF call \in {"storage.read", "storage.write"} THEN "lock"
  ELSE "storage"

\* The guard held once the call has returned.
LockAfter(lock, call) ==
  IF call = "storage.write" THEN "write"
  ELSE IF call = "storage.read" THEN "read"
  ELSE IF call = "drop" THEN "none"
  ELSE lock

\* The storage once the call has returned.
Effect(st, ins) ==
  IF ins.call = "storage.save_transaction" THEN SaveTransaction(st, ins.x, ins.y)
  ELSE IF ins.call = "storage.add_topoheight_to_changes" THEN AddTopoheightToChanges(st, ins.x, ins.y)
  ELSE IF ins.call = "storage.set_nonce" THEN [st EXCEPT !.nonce = Some(ins.x)]
  ELSE IF ins.call = "storage.set_balance_for" THEN SetBalanceFor(st, ins.x, ins.y)
  ELSE IF ins.call = "storage.add_asset" THEN [st EXCEPT !.assets = @ \cup {ins.x}]
  ELSE IF ins.call = "storage.delete_balances" THEN DeleteBalances(st)
  ELSE IF ins.call = "storage.delete_assets" THEN DeleteAssets(st)
  ELSE IF ins.call = "storage.set_synced_topoheight" THEN [st EXCEPT !.synced = ins.x]
  ELSE IF ins.call = "storage.set_top_block_hash" THEN [st EXCEPT !.top = ins.x]
  ELSE st

\* wallet.decrypt_ciphertext, once for every transfer kept.
Decrypts(n) == [ j \in 1..n |-> Do("wallet.decrypt_ciphertext") ]

\* process_block: one transaction that yields an entry not stored yet.
SaveSteps(t, topoheight, k, changes_stored) ==
  Decrypts(Len(KeptTransfers(t)))
  \o << Do("storage.read"), Ins("storage.has_transaction", t, 0), Do("drop"),
        Ins("api.is_tx_executed_in_block", t, k),
        Do("storage.write"), Ins("storage.save_transaction", t, StoredEntry(t, topoheight)) >>
  \o (IF changes_stored THEN << >>
      ELSE << Ins("storage.add_topoheight_to_changes", topoheight, k) >>)
  \o << Do("drop"), Do("wallet.propagate_event") >>

\* get_balance_and_transactions: the head update of the first iteration.
HeadUpdateSteps(asset, nonce, balance, raise, store) ==
  << Do("storage.write"), Do("storage.get_nonce") >>
  \o (IF raise THEN << Ins("storage.set_nonce", nonce, 0) >> ELSE << >>)
  \o << Ins("storage.get_balance_for", asset, 0) >>
  \o (IF store
      THEN << Do("storage.get_unconfirmed_balance_decoded_for"), Do("wallet.decrypt_ciphertext"),
              Ins("storage.set_balance_for", asset, balance), Do("wallet.propagate_event") >>
      ELSE << >>)
  \o << Do("drop") >>

\* sync_head_state: the account is not registered.
WipeSteps(any_balance) ==
  << Do("api.get_nonce"), Do("storage.write"), Do("storage.has_any_balance") >>
  \o (IF any_balance THEN << Do("storage.delete_balances"), Do("storage.delete_assets") >>
      ELSE << >>)
  \o << Do("drop") >>

\* sync_head_state: one asset of the first loop.
DiscoverSteps(asset, known) ==
  << Do("storage.read"), Ins("storage.contains_asset", asset, 0), Do("drop") >>
  \o (IF known THEN << >>
      ELSE << Ins("api.get_asset", asset, 0), Do("storage.write"),
              Ins("storage.add_asset", asset, 0), Do("drop"), Do("wallet.propagate_event") >>)
  \o << Ins("api.get_balance", asset, 0) >>

\* sync_head_state: the nonce write.
NonceSteps(new_nonce, differs) ==
  << Do("storage.write"), Do("storage.get_nonce") >>
  \o (IF differs THEN << Ins("storage.set_nonce", new_nonce, 0) >> ELSE << >>)
  \o << Do("drop") >>

\* sync_head_state: one asset of the second loop.
BalanceSteps(asset, ciphertext, must_update) ==
  << Do("storage.read"), Ins("storage.get_balance_for", asset, 0) >>
  \o (IF must_update THEN << Do("storage.get_unconfirmed_balance_decoded_for") >> ELSE << >>)
  \o << Do("drop") >>
  \o (IF must_update
      THEN << Do("wallet.decrypt_ciphertext"), Do("wallet.propagate_event"), Do("storage.write"),
              Ins("storage.set_balance_for", asset, ciphertext), Do("drop") >>
      ELSE << >>)

\* sync: the head pointer is advanced.
AdvanceSteps(daemon_topoheight, daemon_block_hash) ==
  << Do("storage.write"), Ins("storage.set_synced_topoheight", daemon_topoheight, 0),
     Ins("storage.set_top_block_hash", daemon_block_hash, 0), Do("drop"),
     Do("wallet.propagate_event") >>

\* The sections the pass may run next, with what the daemon and the storage
\* answer now.
Sections(ch, st) ==
  { SaveSteps(t, ExecutorOf(ch, t), ch[ExecutorOf(ch, t)], FALSE) :
      t \in { u \in ExecutedTxs(ch) : /\ EntryData(u, KeptTransfers(u)) # None
                                      /\ ~HasTransaction(st, u) } }
  \cup { SaveSteps(t, ExecutorOf(ch, t), ch[ExecutorOf(ch, t)], TRUE) :
      t \in { u \in ExecutedTxs(ch) : /\ EntryData(u, KeptTransfers(u)) # None
                                      /\ ~HasTransaction(st, u)
                                      /\ HasTopoheightInChanges(st, ExecutorOf(ch, u)) } }
  \cup { HeadUpdateSteps(a, DaemonNonce(ch), LatestCipher(ch, a),
                         st.nonce # None /\ Get(st.nonce) < DaemonNonce(ch),
                         BalanceDiffers(st, a, LatestCipher(ch, a))) :
      a \in { b \in st.assets : HasBalance(ch, b) /\ st.nonce # None } }
  \cup (IF Registered(ch)
        THEN { NonceSteps(DaemonNonce(ch), MustStoreNonce(st, DaemonNonce(ch))) }
        ELSE { WipeSteps(HasAnyBalance(st)) })
  \cup { DiscoverSteps(a, ContainsAsset(st, a)) : a \in AccountAssets(ch) }
  \cup { BalanceSteps(a, LatestCipher(ch, a), BalanceDiffers(st, a, LatestCipher(ch, a))) :
      a \in { b \in st.assets : HasBalance(ch, b) } }
  \cup { AdvanceSteps(DaemonTopoheight(ch), HashAt(ch, DaemonTopoheight(ch))) }

\* From call i on: the calls that cannot suspend are made, up to the next
\* call that can; i = 0 when the section is over.
RECURSIVE RunOn(_, _, _, _)
RunOn(st, prog, i, lock) ==
  IF i > Len(prog) THEN [st |-> st, i |-> 0, lock |-> lock]
  ELSE IF Suspends(prog[i].call) THEN [st |-> st, i |-> i, lock |-> lock]
  ELSE RunOn(Effect(st, prog[i]), prog, i + 1, LockAfter(lock, prog[i].call))

StepAt(at, prog, i, lock) == [at |-> at, prog |-> prog, i |-> i, lock |-> lock]
StepIdle == StepAt("idle", << >>, 0, "none")

\* The chain the daemon has when the task starts.
StepChain == << "IN", "MULTI", "CB" >>

StepInit ==
  /\ family = {"E", "CB", "IN", "MULTI"}
  /\ pruned = NotPruned
  /\ moves = 0
  /\ chain = StepChain
  /\ storage = InitStorage
  /\ pc = "boot"
  /\ sincesync = FALSE
  /\ last = Plain("none", TRUE, StartRun(InitStorage))
  /\ events = << >>
  /\ LifeInit
  /\ step = StepIdle

\* The pass enters a section: the task is suspended in its first call.
StepEnter ==
  /\ step.at = "idle"
  /\ \E prog \in Sections(chain, storage) :
        \E r \in { RunOn(storage, prog, 1, "none") } :
           /\ storage' = r.st
           /\ step' = StepAt("await", prog, r.i, r.lock)
  /\ UNCHANGED << family, pruned, moves, chain, pc, last, events, sincesync, lifeVars >>

\* The call the task is suspended in returns; the task runs on to its next
\* suspension point.
StepReturn ==
  /\ step.at = "await"
  /\ \E r \in { RunOn(Effect(storage, step.prog[step.i]), step.prog, step.i + 1,
                      LockAfter(step.lock, step.prog[step.i].call)) } :
        /\ storage' = r.st
        /\ step' = IF r.i = 0 THEN StepIdle ELSE StepAt("await", step.prog, r.i, r.lock)
  /\ UNCHANGED << family, pruned, moves, chain, pc, last, events, sincesync, lifeVars >>

\* stop(): handle.abort() ends the task at the suspension point it is at;
\* its guard is dropped.
StepAbort ==
  /\ step.at = "await"
  /\ step' = StepAt("aborted", step.prog, step.i, "none")
  /\ UNCHANGED << syncVars, lifeVars >>

\* The daemon rewinds its whole chain; the account is then not registered.
StepRewind ==
  /\ step.at # "aborted"
  /\ chain # << >>
  /\ chain' = << >>
  /\ UNCHANGED << family, pruned, moves, storage, pc, last, events, sincesync, lifeVars, step >>

StepNext ==
  \/ StepEnter
  \/ StepReturn
  \/ StepAbort
  \/ StepRewind

StepSpec == StepInit /\ [][StepNext]_vars

(***************************************************************************)
(* The select loop of start_syncing as a multiplexer.  An event becomes    *)
(* ready on one of the five channels; the task, when it is at select!,     *)
(* takes one ready channel and runs its arm; the arm returns Ok, and the   *)
(* loop selects again, or an error ('?'), and start_syncing returns: its   *)
(* receivers are dropped with the events still ready on them.              *)
(* step = [at, ready, running]: "select", "handler" or "ended"; the        *)
(* channels with a ready event; the arms that are running.                 *)
(***************************************************************************)
Channels ==
  {"new_block", "block_ordered", "transaction_orphaned", "connection", "connection_lost"}

SelAt(at, ready, running) == [at |-> at, ready |-> ready, running |-> running]

SelInit ==
  /\ family = {"E", "CB", "IN", "MULTI"}
  /\ pruned = NotPruned
  /\ moves = 0
  /\ chain = << >>
  /\ storage = InitStorage
  /\ pc = "loop"
  /\ sincesync = FALSE
  /\ last = Plain("none", TRUE, StartRun(InitStorage))
  /\ events = << >>
  /\ LifeInit
  /\ step = SelAt("select", {}, {})

\* The daemon or the transport makes an event ready on channel c.
Arrive(c) ==
  /\ step.at # "ended"
  /\ c \notin step.ready
  /\ step' = [step EXCEPT !.ready = @ \cup {c}]
  /\ UNCHANGED << syncVars, lifeVars >>

\* The task is at tokio::select! only when no arm is running: each arm is
\* awaited inside the loop body.
SelectingAnytime(s) == s.at # "ended"
Selecting(s) == s.at = "select"

\* select! takes the ready channel c and enters its arm.
Select(c) ==
  /\ Selecting(step)
  /\ c \in step.ready
  /\ step' = SelAt("handler", step.ready \ {c}, step.running \cup {c})
  /\ UNCHANGED << syncVars, lifeVars >>

\* The arm returns: Ok, back to select!; or an error, out of start_syncing.
ArmReturns(ok) ==
  /\ step.at = "handler"
  /\ step' = IF ok THEN SelAt("select", step.ready, {}) ELSE SelAt("ended", {}, {})
  /\ UNCHANGED << syncVars, lifeVars >>

SelNext ==
  \/ \E c \in Channels : Arrive(c)
  \/ \E c \in Channels : Select(c)
  \/ \E ok \in BOOLEAN : ArmReturns(ok)

\* select! polls its branches starting from one picked at random: a channel
\* that is ready again and again is taken.  Every arm returns.
SelectSpec ==
  /\ SelInit
  /\ [][SelNext]_vars
  /\ \A c \in Channels : SF_vars(Select(c))
  /\ WF_vars(\E ok \in BOOLEAN : ArmReturns(ok))

(***************************************************************************)
(* sync_new_blocks, one iteration of the Asset Balance Walker's loop at a  *)
(* time.  The storage is that of a wallet that synced when the daemon's    *)
(* chain was a prefix of what it is now, with or without the head-state    *)
(* reconcile a pass may run before the walk; current_topoheight is that    *)
(* wallet's synced_topoheight; balances is drawn too.                      *)
(* step = [at, assets, k, topoheight, highest_version, processed, hn, min, *)
(* balances, wrote, later]: "asset" before get_balance_and_transactions is *)
(* called for assets[k], "version" before an iteration of its loop,        *)
(* "done"; the loop's topoheight and highest_version, topoheight_processed *)
(* and highest_nonce; the two parameters; whether the first iteration of   *)
(* this asset's walk wrote nonce or balance, and whether a later one       *)
(* stored an entry.                                                        *)
(***************************************************************************)
\* The chains of distinct blocks, each block executable where it stands.
WalkChains ==
  { ch \in UNION { [1..n -> BlockIds] : n \in 0..MaxTopo } :
      /\ \A i, j \in 1..Len(ch) : i # j => ch[i] # ch[j]
      /\ \A i \in 1..Len(ch) : CanExecute(SubSeq(ch, 1, i - 1), ch[i]) }

WalkAt(at, assets, min, balances) ==
  [at |-> at, assets |-> assets, k |-> 1, topoheight |-> None, highest_version |-> TRUE,
   processed |-> {}, hn |-> None, min |-> min, balances |-> balances,
   wrote |-> FALSE, later |-> FALSE]

WalkInit ==
  /\ family = BlockIds
  /\ pruned = NotPruned
  /\ moves = 0
  /\ \E ch \in WalkChains, n \in 0..MaxTopo, order \in Orders, reconciled, balances \in BOOLEAN :
        /\ n <= Len(ch)
        /\ chain = ch
        /\ \E synced \in { Sync(SubSeq(ch, 1, n), InitStorage, None, order).w.st } :
              \E st \in { IF reconciled
                          THEN SyncHeadState(ch, StartRun(synced), None, None, TRUE, order).w.st
                          ELSE synced } :
                 /\ storage = st
                 /\ step = WalkAt("asset", InOrder(order, st.assets), st.synced, balances)
  /\ pc = "boot"
  /\ sincesync = FALSE
  /\ last = Plain("none", TRUE, StartRun(InitStorage))
  /\ events = << >>
  /\ LifeInit

\* get_balance_and_transactions is called for the next asset: get_balance,
\* and the return for an asset already walked up to its latest version.
WalkCall(s, ch) ==
  IF s.k > Len(s.assets) THEN [s EXCEPT !.at = "done"]
  ELSE IF ~HasBalance(ch, s.assets[s.k]) THEN [s EXCEPT !.k = @ + 1]
  ELSE IF s.min >= BalanceTopo(ch, s.assets[s.k]) THEN [s EXCEPT !.k = @ + 1]
  ELSE [s EXCEPT !.at = "version", !.topoheight = Some(BalanceTopo(ch, s.assets[s.k])),
                 !.highest_version = TRUE, !.wrote = FALSE, !.later = FALSE]

WalkEnter ==
  /\ step.at = "asset"
  /\ step' = WalkCall(step, chain)
  /\ UNCHANGED << syncVars, lifeVars >>

\* "Prepare a new iteration": the previous version, unless it is synced already.
WalkOn(s, wk, previous, wrote, later) ==
  IF wk.err \/ previous = None \/ s.min >= Get(previous)
  THEN [s EXCEPT !.at = "asset", !.k = @ + 1, !.processed = wk.processed, !.hn = wk.hn,
                 !.wrote = @ \/ wrote, !.later = @ \/ later]
  ELSE [s EXCEPT !.topoheight = previous, !.highest_version = FALSE,
                 !.processed = wk.processed, !.hn = wk.hn,
                 !.wrote = @ \/ wrote, !.later = @ \/ later]

\* One iteration of the loop.
WalkVersion ==
  /\ step.at = "version"
  /\ \E wk \in { VisitVersion(chain, [w |-> StartRun(storage), processed |-> step.processed,
                                      hn |-> step.hn, err |-> FALSE],
                              step.assets[step.k], step.balances, Get(step.topoheight),
                              step.highest_version) } :
        /\ storage' = wk.w.st
        /\ events' = wk.w.ev
        /\ step' = WalkOn(step, wk,
                          PreviousTopo(chain, step.assets[step.k], Get(step.topoheight)),
                          /\ step.highest_version
                          /\ (wk.w.st.nonce # storage.nonce \/ wk.w.st.balances # storage.balances),
                          /\ ~step.highest_version
                          /\ DOMAIN wk.w.st.txs # DOMAIN storage.txs)
  /\ UNCHANGED << family, pruned, moves, chain, pc, last, sincesync, lifeVars >>

WalkNext ==
  \/ WalkEnter
  \/ WalkVersion

WalkSpec == WalkInit /\ [][WalkNext]_vars

(***************************************************************************)
(* sync_head_state applied once, over its parameters.  The storage is that *)
(* of a wallet that synced to a chain; the daemon has since rewound to a   *)
(* prefix of it, or to a chain of at most one block.                       *)
(* step = [at, assets, nonce, sync_nonce, had, flag]: "call" before the    *)
(* call and "head" after; the arguments; whether the wallet had a balance; *)
(* the value returned.                                                     *)
(***************************************************************************)
HeadAt(at, assets, nonce, sync_nonce, had, flag) ==
  [at |-> at, assets |-> assets, nonce |-> nonce, sync_nonce |-> sync_nonce, had |-> had,
   flag |-> flag]

HeadInit ==
  /\ family = BlockIds
  /\ pruned = NotPruned
  /\ moves = 0
  /\ \E old \in WalkChains, order \in Orders :
        /\ chain \in { SubSeq(old, 1, n) : n \in 0..Len(old) }
                        \cup { ch \in WalkChains : Len(ch) <= 1 }
        /\ storage = Sync(old, InitStorage, None, order).w.st
  /\ pc = "boot"
  /\ sincesync = FALSE
  /\ last = Plain("none", TRUE, StartRun(InitStorage))
  /\ events = << >>
  /\ LifeInit
  /\ step = HeadAt("call", None, None, FALSE, FALSE, FALSE)

\* The nonce hints process_block may give.
NonceHints == {None} \cup { Some(n) : n \in 1..Cardinality({ t \in TxIds : Txs[t].source = Me }) }

Reconcile ==
  /\ step.at = "call"
  /\ \E assets \in {None} \cup { Some(S) : S \in (SUBSET Assets) \ {{}} },
        nonce \in NonceHints, sync_nonce \in BOOLEAN, order \in Orders :
        \E r \in { SyncHeadState(chain, StartRun(storage), assets, nonce, sync_nonce, order) } :
           /\ storage' = r.w.st
           /\ events' = r.w.ev
           /\ last' = Plain("sync_head_state", ~r.err, r.w)
           /\ step' = HeadAt("head", assets, nonce, sync_nonce, HasAnyBalance(storage), r.flag)
  /\ UNCHANGED << family, pruned, moves, chain, pc, sincesync, lifeVars >>

HeadSpec == HeadInit /\ [][Reconcile]_vars

(***************************************************************************)
(* Properties.                                                             *)
(***************************************************************************)
\* The handlers that run sync.
SyncOps == {"bootstrap", "new_block", "connection"}
\* A sync pass has just returned success.
SyncReturnedOk == last.op \in SyncOps /\ last.ok

\* The pushed block of the last handler's event, and its topoheight.
PushedBlock == Get(last.event).block
PushedTopoheight == Get(Get(last.event).topoheight)

\* Event types among the events the last handler propagated.
Emitted(type) == { i \in 1..Len(events) : events[i].type = type }

\* C1: whenever sync returns success, storage.synced_topoheight and
\* storage.top_block_hash are the topoheight and top_block_hash of the get_info
\* response the pass started with (which are the daemon's, the chain not
\* moving during the pass).
C1_HeadIsDaemonInfo ==
  SyncReturnedOk =>
     /\ storage.synced = last.daemon_topoheight
     /\ storage.top = last.daemon_block_hash
     /\ last.daemon_topoheight = DaemonTopoheight(chain)
     /\ last.daemon_block_hash = HashAt(chain, DaemonTopoheight(chain))

\* C1 witness: a pass with a new_block event that rewound to a checkpoint
\* above genesis (cleanup path), walked the blocks above it and returned success.
C1_Witness ==
  /\ SyncReturnedOk
  /\ last.op = "new_block"
  /\ last.path = "clean"
  /\ last.wallet_topoheight > 0
  /\ last.wallet_topoheight < last.daemon_topoheight
  /\ last.walked
  /\ storage.synced = last.daemon_topoheight

\* C2: a handler that finds the account registered writes the stored nonce
\* only upward: every write is strictly greater than the value stored before it.
C2_NonceNeverDecreases ==
  Registered(chain) =>
     \A i \in 1..Len(last.nw) :
        last.nw[i][1] = None \/ last.nw[i][2] > Get(last.nw[i][1])

\* C3: after a successful sync pass, every asset of the wallet's asset set
\* that the daemon holds a balance of has its stored ciphertext equal to the
\* daemon's latest ciphertext for it.
C3_BalancesMatchDaemon ==
  SyncReturnedOk =>
     \A a \in storage.assets :
        HasBalance(chain, a) =>
           /\ HasBalanceFor(storage, a)
           /\ storage.balances[a].ct = LatestCipher(chain, a)

\* C4: when the block_ordered handler has handled a reorg at topoheight r, no
\* transaction entry with a topoheight above r remains in storage.
C4_NoEntryAboveReorg ==
  (last.op = "block_ordered" /\ last.hit) =>
     \A x \in DOMAIN storage.txs : storage.txs[x].topo <= PushedTopoheight

\* C5: every topoheight of the changes index has a transaction entry stored
\* at that topoheight, or was put there by the Checkpoint Locator.
C5_ChangesHaveEntries ==
  \A h \in DOMAIN storage.changes :
     \/ h \in storage.located
     \/ \E x \in DOMAIN storage.txs : storage.txs[x].topo = h

\* C6: save_transaction is never called for a hash that has_transaction
\* already holds, by any handler.
C6_NoDuplicateSave == ~last.dup

\* C6 witness: a pushed block whose entries the pass stored, and which the
\* Asset Balance Walker then processed again in the same pass.
C6_Witness ==
  /\ SyncReturnedOk
  /\ last.op = "new_block"
  /\ last.hit
  /\ last.walked
  /\ PushedTopoheight > last.wallet_topoheight
  /\ \E a \in storage.assets : PushedTopoheight \in Versions(chain, a)
  /\ EntriesOf(PushedBlock) # {}
  /\ EntriesOf(PushedBlock) \subseteq DOMAIN storage.txs

\* C7: start returns AlreadyRunning, changes nothing and emits nothing
\* whenever a task handle exists and its task has not finished.
C7_AlreadyRunningWhileLive ==
  (ret.op = "start" /\ ret.live) =>
     /\ ret.result = "AlreadyRunning"
     /\ ~ret.changed
     /\ log = << >>

\* C8: stop returns NotRunning iff there was no handle; otherwise the handle
\* is gone and the transport is disconnected when it returns; it emits
\* Offline only when the task was still running.
C8_StopDisconnects ==
  ret.op = "stop" =>
     /\ (ret.result = "NotRunning") <=> ~ret.had
     /\ ret.had => (handle = None /\ ~online)
     /\ ret.offline <=> ret.live

\* C9: sync(address, None) run when nothing has happened since the last
\* successful sync leaves the whole storage as it was.
C9_SecondSyncIsNoOp ==
  [][(last'.op = "connection" /\ last'.quiet) => storage' = storage]_vars

\* C9 witness: such a second pass has returned success over a storage that
\* holds transactions and balances, its walk having been requested.
C9_Witness ==
  /\ last.op = "connection"
  /\ last.quiet
  /\ last.ok
  /\ last.walked
  /\ storage.txs # << >>
  /\ storage.balances # << >>
  /\ storage.synced > 0

\* C10 as stated: handling a new_block event for a block already fully
\* processed (nothing having happened since the last successful sync) stores
\* nothing and emits no NewTransaction, no BalanceChanged and no NewTopoHeight
\* that was emitted for that block before.
C10_ReplayEmitsNothing ==
  (last.op = "new_block" /\ last.replay) =>
     /\ Emitted("NewTransaction") = {}
     /\ Emitted("BalanceChanged") = {}
     /\ \A i \in Emitted("NewTopoHeight") : events[i].topo # PushedTopoheight

\* C10 amended: such a replay leaves the storage as it was and emits one
\* event only, the NewTopoHeight that ends every successful sync.
C10_ReplayOnlyAnnouncesHead ==
  [][(last'.op = "new_block" /\ last'.replay) =>
        /\ storage' = storage
        /\ events' = << NewTopoHeight(DaemonTopoheight(chain)) >>]_vars

\* C10 witness: the replayed block is the daemon's top block and its entries
\* were stored by an earlier pass.
C10_Witness ==
  /\ last.op = "new_block"
  /\ last.replay
  /\ last.ok
  /\ EntriesOf(PushedBlock) # {}
  /\ EntriesOf(PushedBlock) \subseteq DOMAIN storage.txs
  /\ PushedTopoheight = DaemonTopoheight(chain)


\* C11: a network mismatch met during a sync pass - in get_info's answer, or
\* in the miner address of a block the pass processes, pushed by the event or
\* reached by the walker - makes the pass return an error: no NewTopoHeight is
\* emitted and the supervisor's loop ends.
C11_MismatchFailsSync ==
  (last.op \in SyncOps /\ "mismatch" \in last.faults) =>
     /\ ~last.ok
     /\ pc = "err"
     /\ Emitted("NewTopoHeight") = {}

\* C12: a daemon request that fails during a sync pass - in the locator, in
\* the head-state reconciler or inside the walker - ends the pass: sync returns
\* an error, no NewTopoHeight is emitted and the supervisor's loop ends.
C12_RpcFailureEndsPass ==
  (last.op \in SyncOps /\ "rpc" \in last.faults) =>
     /\ ~last.ok
     /\ Emitted("NewTopoHeight") = {}
     /\ pc = "err"

\* C13: when a new_block event is handled by a sync that succeeds, every
\* transaction of the wallet's own (Transfers or Burn) with nonce n that the
\* pass newly stores leaves a stored nonce of at least n + 1.
C13_NonceFollowsOutgoing ==
  [][ (last'.op = "new_block" /\ last'.ok) =>
        \A t \in (DOMAIN storage'.txs \ DOMAIN storage.txs) \cap TxIds :
           Txs[t].source = Me =>
              /\ storage'.nonce # None
              /\ Get(storage'.nonce) >= Txs[t].nonce + 1 ]_vars

\* C14: when the wallet has a stored top_block_hash and its synced_topoheight
\* is strictly above the daemon's topoheight, the Checkpoint Locator answers
\* (daemon_topoheight, daemon_block_hash, 0, sync_back = true), the daemon
\* being of the wallet's network.
C14_AboveDaemonRewinds ==
  [][ ( /\ last'.op \in SyncOps
        /\ DaemonNetwork = WalletNetwork
        /\ HasTopBlockHash(storage)
        /\ storage.synced > DaemonTopoheight(chain) ) =>
          /\ last'.daemon_topoheight = DaemonTopoheight(chain)
          /\ last'.daemon_block_hash = HashAt(chain, DaemonTopoheight(chain))
          /\ last'.wallet_topoheight = 0
          /\ last'.sync_back ]_vars

\* C14 witness: a pass has taken the locator's above-the-daemon return and
\* ended with the head pointer on the daemon's lower tip.
C14_Witness ==
  /\ last.op \in SyncOps
  /\ last.path = "above"
  /\ last.wallet_topoheight = 0
  /\ last.sync_back
  /\ last.ok
  /\ storage.synced = DaemonTopoheight(chain)
  /\ storage.txs # << >>

\* C19: a transfer whose commitment or handle does not decompress is all
\* that is dropped.  Every stored Incoming or Outgoing entry holds exactly the
\* transfers of its transaction that concern the wallet and decompressed, in
\* order; and a pass that processed an ordered pushed block and returned
\* success has stored every entry the block yields, the transactions after
\* the one with the failing transfer included.
C19_OnlyFailingTransferDropped ==
  /\ \A t \in (DOMAIN storage.txs) \cap TxIds :
        Txs[t].kind = "transfers" =>
           storage.txs[t].transfers =
              SelectSeq(Txs[t].transfers,
                        LAMBDA tr : tr.ok /\ (Txs[t].source = Me \/ tr.dest = Me))
  /\ (last.op = "new_block" /\ last.ok /\ Get(last.event).topoheight # None)
        => EntriesOf(PushedBlock) \subseteq DOMAIN storage.txs

\* C19 witness: the pushed block DUP has been processed in a pass that
\* succeeded; tIn, whose first transfer does not decompress, is stored with
\* its one other transfer, and tOut, which follows it in the block, is stored
\* at the same topoheight.
C19_Witness ==
  /\ last.op = "new_block"
  /\ last.ok
  /\ last.hit
  /\ PushedBlock = "DUP"
  /\ {"tIn", "tOut"} \subseteq DOMAIN storage.txs
  /\ Len(Txs["tIn"].transfers) = 2
  /\ Len(storage.txs["tIn"].transfers) = 1
  /\ storage.txs["tIn"].transfers[1].asset = AssetX
  /\ storage.txs["tIn"].topo = storage.txs["tOut"].topo

\* C20: once start_syncing has returned, the task propagates one Offline; it
\* finishes only when auto_reconnect is false, and then with the transport
\* disconnected: a task started with auto_reconnect = true never finishes.
C20_AutoReconnectNeverFinishes ==
  [][ \A i \in 1..Len(tasks) :
        (tasks[i].state = "syncing" /\ tasks'[i].state = "finished") =>
           /\ ~tasks[i].auto
           /\ ~online'
           /\ log' = << "Offline" >> ]_vars

\* C15: when the daemon's pruned_topoheight is its tip topoheight, the
\* Checkpoint Locator returns, whatever the changes index and the
\* synced_topoheight of the wallet, and a checkpoint it returns is the
\* daemon's tip or 0.
C15_PrunedAtTipTerminates ==
  /\ (PrunedTopoheight = DaemonTopoheight(chain)) ~> (step.at = "done")
  /\ [](( /\ PrunedTopoheight = DaemonTopoheight(chain)
          /\ step.at = "done"
          /\ last.ok ) => last.wallet_topoheight \in {0, DaemonTopoheight(chain)})

\* C15 witness: on a daemon pruned at its tip, the search has found the
\* wallet's marker at the tip to hold another hash, gone down to a marker
\* below the pruned topoheight and returned the tip as the checkpoint.
C15_Witness ==
  /\ step.at = "done"
  /\ PrunedTopoheight = DaemonTopoheight(chain)
  /\ DaemonTopoheight(chain) >= 2
  /\ step.rounds >= 2
  /\ last.ok
  /\ last.path = "clean"
  /\ last.wallet_topoheight = DaemonTopoheight(chain)

\* C16: handling transaction_orphaned{T} leaves T not stored, clears the tx
\* cache if and only if its last_tx_hash_created is T, and changes nothing
\* else: every other entry, the changes index, the balances, the nonce, the
\* known assets and the head pointer are as before.
C16_OrphanFrame ==
  [][ last'.op = "transaction_orphaned" =>
        /\ ~HasTransaction(storage', Get(last'.event).block)
        /\ storage'.tx_cache = IF storage.tx_cache = Some(Get(last'.event).block)
                               THEN None ELSE storage.tx_cache
        /\ DOMAIN storage'.txs = (DOMAIN storage.txs) \ {Get(last'.event).block}
        /\ \A h \in DOMAIN storage'.txs : storage'.txs[h] = storage.txs[h]
        /\ storage'.changes = storage.changes
        /\ storage'.balances = storage.balances
        /\ storage'.assets = storage.assets
        /\ storage'.nonce = storage.nonce
        /\ storage'.synced = storage.synced
        /\ storage'.top = storage.top ]_vars

\* C16 witness: the orphaned transaction was stored and was the one the tx
\* cache named; it is gone, the cache is cleared, and other entries, the
\* changes index, a balance and the nonce are still there.
C16_Witness ==
  /\ last.op = "transaction_orphaned"
  /\ last.hit
  /\ last.created
  /\ storage.tx_cache = None
  /\ ~HasTransaction(storage, Get(last.event).block)
  /\ storage.txs # << >>
  /\ DOMAIN storage.changes # {}
  /\ storage.balances # << >>
  /\ storage.nonce # None

\* C17: while the sync task is inside a daemon request or a
\* decrypt_ciphertext call it holds no storage write guard.
C17_NoWriteGuardAcrossCalls ==
  (step.at = "await" /\ Kind(step.prog[step.i].call) \in {"daemon", "decrypt"})
     => step.lock # "write"

\* C18: when stop has aborted the sync task at a suspension point, the
\* storage holds no half-applied update: every stored entry has the changes
\* marker of its topoheight, synced_topoheight and top_block_hash are those of
\* one get_info answer (or both unset), and the wipe for an unregistered
\* account has removed the balances and the known assets together or not at
\* all.
C18_AbortLeavesNoHalfUpdate ==
  step.at = "aborted" =>
     /\ \A t \in DOMAIN storage.txs : HasTopoheightInChanges(storage, storage.txs[t].topo)
     /\ \/ storage.synced = 0 /\ storage.top = NoHash
        \/ \E ch \in {StepChain, << >>} :
              /\ storage.synced = DaemonTopoheight(ch)
              /\ storage.top = HashAt(ch, DaemonTopoheight(ch))
     /\ step.prog = WipeSteps(TRUE) => (HasAnyBalance(storage) <=> storage.assets # {})

\* The steps of one sync pass, in the order of the code.
SyncSteps == << "locate", "head", "block", "walk", "advance" >>
StepRank(s) == CHOOSE n \in 1..Len(SyncSteps) : SyncSteps[n] = s
\* The last handler's event carries an ordered block.
PushedOrdered == last.event # None /\ Get(last.event).topoheight # None

\* C21: within one sync pass the steps are entered in the order Checkpoint
\* Locator, head-state reconcile (only if sync_back), processing of the pushed
\* block (only for an event with a topoheight), Asset Balance Walker (only if
\* the walk was requested), head pointer write with NewTopoHeight; the head
\* pointer write is the last step, it is made by the passes that succeed and
\* by no other, and NewTopoHeight follows every event of the earlier steps.
C21_StepsInOrder ==
  last.op \in SyncOps =>
     /\ last.steps # << >>
     /\ last.steps[1] = "locate"
     /\ \A i, j \in 1..Len(last.steps) : i < j => StepRank(last.steps[i]) < StepRank(last.steps[j])
     /\ "head" \in Range(last.steps) => last.sync_back
     /\ (last.ok /\ last.sync_back) => "head" \in Range(last.steps)
     /\ "block" \in Range(last.steps) => PushedOrdered
     /\ (last.ok /\ PushedOrdered) => "block" \in Range(last.steps)
     /\ "walk" \in Range(last.steps) <=> last.walked
     /\ "advance" \in Range(last.steps) <=> last.ok
     /\ last.ok =>
          /\ last.steps[Len(last.steps)] = "advance"
          /\ \E n \in 1..Len(events) :
                /\ events[n] = NewTopoHeight(last.daemon_topoheight)
                /\ \A i \in 1..Len(events) :
                      events[i].type \in {"Rescan", "NewAsset", "BalanceChanged", "NewTransaction"}
                         => i < n
     /\ ~last.ok => Emitted("NewTopoHeight") = {}

\* C21 witness: a pass has run all five steps and succeeded, the pushed
\* block or the walk having stored a transaction.
C21_Witness ==
  /\ last.op = "new_block"
  /\ last.ok
  /\ last.steps = SyncSteps
  /\ Emitted("NewTransaction") # {}
  /\ Emitted("Rescan") # {}

RecipientOnly(k) == \A i \in 1..Len(Blocks[k].txs) : Txs[Blocks[k].txs[i]].source # Me
\* The transactions of block k that pay the wallet.
PayingTxs(k) ==
  { Blocks[k].txs[i] : i \in { j \in 1..Len(Blocks[k].txs) :
                                 KeptTransfers(Blocks[k].txs[j]) # << >> } }

\* C23: when a pass that succeeds has processed a pushed block in which the
\* wallet is only a recipient, every transaction of the block that pays the
\* wallet has its Incoming entry in storage, and the processing of the block
\* (process_block and the reconcile of the changed assets) has written no
\* nonce; when the pushed block is the daemon's top block and the one block
\* above the wallet's head, the whole pass leaves the stored nonce as it was.
C23_RecipientOnlyKeepsNonce ==
  [][ ( /\ last'.op = "new_block"
        /\ last'.ok
        /\ Get(last'.event).topoheight # None
        /\ RecipientOnly(Get(last'.event).block) ) =>
          /\ \A t \in PayingTxs(Get(last'.event).block) :
                /\ HasTransaction(storage', t)
                /\ storage'.txs[t].kind = "Incoming"
          /\ \A i \in 1..Len(last'.nw) : last'.nw[i][3] # "block"
          /\ ( /\ ~last'.sync_back
               /\ Get(Get(last'.event).topoheight) = DaemonTopoheight(chain)
               /\ last'.wallet_topoheight = DaemonTopoheight(chain) - 1 )
                => storage'.nonce = storage.nonce ]_vars

\* C23 witness: the pushed block MULTI, whose one transaction pays the
\* wallet in two assets, has been processed by a pass that found changes in
\* it and changed both balances; the entry is stored and the nonce is the
\* one stored before.
C23_Witness ==
  /\ last.op = "new_block"
  /\ last.ok
  /\ last.hit
  /\ PushedOrdered
  /\ PushedBlock = "MULTI"
  /\ HasTransaction(storage, "tMul")
  /\ storage.txs["tMul"].kind = "Incoming"
  /\ Len(storage.txs["tMul"].transfers) = 2
  /\ Cardinality({ i \in Emitted("BalanceChanged") : TRUE }) = 2
  /\ last.nw = << >>
  /\ storage.nonce # None

\* C24: whenever the Checkpoint Locator has returned checkpoint m with
\* sync_back = true, the changes index holds no topoheight above m, no stored
\* entry has a topoheight above m, synced_topoheight is m, top_block_hash is
\* the daemon's hash at m, and the changes index holds m.
C24_CheckpointCleansAbove ==
  (step.at = "done" /\ last.op = "locate" /\ last.ok /\ last.sync_back) =>
     /\ ChangesAbove(storage, last.wallet_topoheight) = {}
     /\ \A x \in DOMAIN storage.txs : storage.txs[x].topo <= last.wallet_topoheight
     /\ storage.synced = last.wallet_topoheight
     /\ storage.top = HashAt(chain, last.wallet_topoheight)
     /\ HasTopoheightInChanges(storage, last.wallet_topoheight)

\* C25: an iteration of the Asset Balance Walker's loop writes the stored
\* nonce or a stored balance only if it is the first of its walk (the tip
\* balance version), the balances flag is true and the block yielded changes,
\* and then no balance but the walked asset's; every iteration leaves the
\* stored entries and changes markers it found, the known assets and the head
\* pointer as they were, and can only add entries and markers.
C25_OnlyFirstIterationWritesHead ==
  [][ (step.at = "version" /\ step' # step) =>
        /\ (storage'.nonce # storage.nonce \/ storage'.balances # storage.balances) =>
              /\ step.highest_version
              /\ step.balances
              /\ DOMAIN storage'.txs # DOMAIN storage.txs
        /\ ~step.highest_version =>
              (storage'.nonce = storage.nonce /\ storage'.balances = storage.balances)
        /\ \A a \in DOMAIN storage'.balances :
              a # step.assets[step.k] =>
                 (a \in DOMAIN storage.balances /\ storage'.balances[a] = storage.balances[a])
        /\ \A x \in DOMAIN storage.txs :
              x \in DOMAIN storage'.txs /\ storage'.txs[x] = storage.txs[x]
        /\ \A h \in DOMAIN storage.changes :
              h \in DOMAIN storage'.changes /\ storage'.changes[h] = storage.changes[h]
        /\ storage'.assets = storage.assets
        /\ storage'.synced = storage.synced
        /\ storage'.top = storage.top
        /\ storage'.tx_cache = storage.tx_cache ]_vars

\* C25 witness: in one asset's walk the first iteration has written the
\* nonce or the balance, and a later iteration has stored an entry.
C25_Witness ==
  /\ step.at \in {"asset", "done"}
  /\ step.balances
  /\ step.wrote
  /\ step.later

\* C26: sync_head_state called with no nonce hint and sync_nonce = true,
\* when the daemon's get_nonce fails, returns Ok(false); if the wallet had
\* any balance, all balances and all known assets are deleted, and otherwise
\* the storage is as it was; the stored nonce, the entries, the changes index
\* and the head pointer are unchanged, no event is propagated, and get_nonce
\* is the only daemon request made.
C26_UnregisteredWipes ==
  [][ ( /\ step.at = "call"
        /\ step'.at = "head"
        /\ step'.nonce = None
        /\ step'.sync_nonce
        /\ ~Registered(chain) ) =>
          /\ last'.ok
          /\ ~step'.flag
          /\ HasAnyBalance(storage) => (storage'.balances = << >> /\ storage'.assets = {})
          /\ ~HasAnyBalance(storage) => storage' = storage
          /\ storage'.nonce = storage.nonce
          /\ storage'.txs = storage.txs
          /\ storage'.changes = storage.changes
          /\ storage'.synced = storage.synced
          /\ storage'.top = storage.top
          /\ events' = << >>
          /\ last'.calls = {"api.get_nonce"} ]_vars

\* C26 witness: the reconciler has been called that way for a wallet that
\* held balances, entries and a nonce, the daemon not knowing the account:
\* balances and assets are gone, entries and nonce are still there.
C26_Witness ==
  /\ step.at = "head"
  /\ step.nonce = None
  /\ step.sync_nonce
  /\ step.had
  /\ ~Registered(chain)
  /\ last.ok
  /\ storage.balances = << >>
  /\ storage.assets = {}
  /\ storage.txs # << >>
  /\ storage.nonce # None
  /\ storage.synced > 0

\* The block_ordered arm has just run.
OrderedHandled == pc = "loop" /\ pc' # "loop" /\ last'.op = "block_ordered"

\* C27: the block_ordered arm changes storage only when the wallet has a
\* stored hash at the event's topoheight, the hash differs from the event's
\* block hash and the topoheight is not 0.  Then the changes at and above the
\* topoheight are deleted and those below kept, synced_topoheight becomes the
\* topoheight and top_block_hash the event's hash only if synced_topoheight
\* was strictly greater, and the block at the topoheight is fetched and
\* processed again (after which the only marker at or above the topoheight
\* is the event's hash at the topoheight, and entries are only added).  In
\* every other case storage is as it was and no block is fetched.
C27_BlockOrderedFrame ==
  [][ OrderedHandled =>
        LET topoheight == Get(Get(last'.event).topoheight)
            block_hash == Get(last'.event).block
        IN IF IsReorg(storage, topoheight, block_hash)
           THEN /\ last'.hit
                /\ last'.calls = {"api.get_block_at_topoheight"}
                /\ \A x \in DOMAIN storage.changes :
                      x < topoheight => /\ x \in DOMAIN storage'.changes
                                        /\ storage'.changes[x] = storage.changes[x]
                /\ \A x \in DOMAIN storage'.changes :
                      /\ x <= topoheight
                      /\ x < topoheight => x \in DOMAIN storage.changes
                      /\ x = topoheight => storage'.changes[x] = block_hash
                /\ storage.synced > topoheight =>
                      (storage'.synced = topoheight /\ storage'.top = block_hash)
                /\ storage.synced <= topoheight =>
                      (storage'.synced = storage.synced /\ storage'.top = storage.top)
                /\ \A t \in DOMAIN storage.txs :
                      t \in DOMAIN storage'.txs /\ storage'.txs[t] = storage.txs[t]
                /\ storage'.nonce = storage.nonce
                /\ storage'.balances = storage.balances
                /\ storage'.assets = storage.assets
           ELSE /\ storage' = storage
                /\ ~last'.hit
                /\ last'.calls = {} ]_vars

\* C27 witness: the arm has handled a reorganisation below the wallet's
\* head: the head pointer is now the event's topoheight and hash, and the
\* block has been fetched.
C27_Witness ==
  /\ last.op = "block_ordered"
  /\ last.hit
  /\ last.ok
  /\ "api.get_block_at_topoheight" \in last.calls
  /\ storage.synced = PushedTopoheight
  /\ storage.top = PushedBlock
  /\ PushedTopoheight < Len(chain)
  /\ storage.txs # << >>

\* C28: when the locator returns, it has propagated Rescan exactly if it
\* went through its cleanup with a synced_topoheight that was not 0 when it
\* was called; the Rescan is then its only event, its start_topoheight is the
\* checkpoint the locator returns and stores as synced_topoheight, and
\* sync_back is true.  No event is propagated when sync_back is false, nor
\* when synced_topoheight was 0.
C28_RescanAtCleanup ==
  [][ (step.at # "done" /\ step'.at = "done") =>
        /\ (last'.path = "clean" /\ storage.synced # 0) =>
              /\ events' = << Rescan(last'.wallet_topoheight) >>
              /\ storage'.synced = last'.wallet_topoheight
              /\ last'.sync_back
              /\ last'.ok
        /\ ~(last'.path = "clean" /\ storage.synced # 0) => events' = << >>
        /\ ~last'.sync_back => events' = << >>
        /\ storage.synced = 0 => events' = << >> ]_vars

\* C28 witness: the locator has searched down to a checkpoint below the
\* wallet's head and above genesis, cleaned up and propagated Rescan there.
C28_Witness ==
  /\ step.at = "done"
  /\ step.rounds > 1
  /\ last.op = "locate"
  /\ last.path = "clean"
  /\ last.wallet_topoheight > 0
  /\ storage.synced = last.wallet_topoheight
  /\ events = << Rescan(last.wallet_topoheight) >>

\* The supervisor tasks that are alive: spawned, neither finished nor aborted.
LiveTasks == { i \in 1..Len(tasks) : tasks[i].state = "syncing" }

\* C29: at most one supervisor task is alive at any time, and the task handle
\* refers to every live task: no start spawns a second task while an earlier
\* one is still running, and no live task is left without the handle that
\* stop aborts.
C29_OneLiveTaskWithHandle ==
  /\ Cardinality(LiveTasks) <= 1
  /\ \A i \in LiveTasks : handle = Some(i)

\* The entries the wallet owes for the blocks up to topoheight h of chain ch:
\* the relevant transactions executed there and the rewards it mined.
EntriesUpTo(ch, h) ==
  UNION { EntriesOf(ch[x]) : x \in { y \in 1..Len(ch) : y <= h } }

\* C30: no block is skipped when the head pointer advances: after every
\* sync pass that returns success, every transaction relevant to the wallet
\* that is executed in a block of the daemon's chain at a topoheight at most
\* synced_topoheight is stored.
C30_NoBlockSkipped ==
  SyncReturnedOk => EntriesUpTo(chain, storage.synced) \subseteq DOMAIN storage.txs

\* The events ev, propagated after the event previous, alternate: each
\* differs from the one before it, and the first event ever is Online.
Alternate(previous, ev) ==
  \A i \in 1..Len(ev) :
     /\ ev[i] # (IF i = 1 THEN previous ELSE ev[i - 1])
     /\ (i = 1 /\ previous = "none") => ev[i] = "Online"

\* C31: the Online and Offline events given to the wallet strictly
\* alternate, starting with Online, over every interleaving of start, stop,
\* the task's loop and the connection handlers; and the last event given is
\* Online only while a sync task is alive and the transport is online.
C31_OnlineOfflineAlternate ==
  /\ [][Alternate(net, log')]_vars
  /\ [](net = "Online" => (LiveTasks # {} /\ online))
=============================================================================
